---------------------------- MODULE Spec2Model ----------------------------
(***************************************************************************)
(* ClaudeMany: a multi-tenant reverse proxy for an Anthropic-style API.    *)
(*                                                                         *)
(* The model follows src/app/routers/proxy.py (the request pipeline and    *)
(* its background metering task), src/app/crud.py (limit engine, ledger,   *)
(* backend registry, tenant keys) and src/app/pricing.py (cost).           *)
(*                                                                         *)
(* Units.  Time is counted in ticks, TicksPerHour of them to the hour.     *)
(* A cost is counted in units of 1e-8 USD and a price in cents per million *)
(* tokens, so that tokens/1e6 * price(USD) is exactly tokens * cents       *)
(* units and round(_, 8) keeps it.  A limit is counted in units of 1e-6    *)
(* USD (the defaults of 10 and 50 USD do not fit 32 bits in cost units);   *)
(* a cost c is below a limit l iff c \div 100 < l.  Binary floating point   *)
(* error is not modelled.                                                  *)
(*                                                                         *)
(* Atomicity.  One action is one database statement or transaction, or     *)
(* one stretch of a coroutine between two awaits.  The database is the     *)
(* only state shared between requests and admin operations.                *)
(***************************************************************************)
EXTENDS Integers, Sequences, FiniteSets, TLC

\* ------------------------------------------------------------------ bounds
MaxReq == 2           \* client requests per behaviour
MaxTicks == 2         \* clock ticks per behaviour
TicksPerHour == 1     \* resolution of the clock
MaxAdmin == 2         \* concurrent admin sessions

HoursPerDay == 24
Hour == TicksPerHour
Day == HoursPerDay * TicksPerHour

Null == "null"

Max(a, b) == IF a >= b THEN a ELSE b
Min(a, b) == IF a <= b THEN a ELSE b

\* --------------------------------------------------------------- pricing
\* A model identifier is the sequence of its '-'-separated parts, in the
\* case the upstream sent them.
Lower(part) ==
    CASE part = "Claude" -> "claude"
      [] part = "Sonnet" -> "sonnet"
      [] part = "Opus" -> "opus"
      [] part = "Haiku" -> "haiku"
      [] OTHER -> part

lower(model_name) == [i \in 1..Len(model_name) |-> Lower(model_name[i])]

\* pattern in model_lower: the pattern occurs as a contiguous run
Contains(model_lower, pattern) ==
    \E s \in 0..(Len(model_lower) - Len(pattern)) :
        \A i \in 1..Len(pattern) : model_lower[s + i] = pattern[i]

Flat(p) == [kind |-> "flat", price |-> p, tiers |-> <<>>]
Tier(t, p) == [inf |-> FALSE, threshold |-> t, price |-> p]
LastTier(p) == [inf |-> TRUE, threshold |-> 0, price |-> p]
Tiered(ts) == [kind |-> "tiered", price |-> 0, tiers |-> ts]

Schedule(i, o, w, r) ==
    [input_tokens |-> i, output_tokens |-> o,
     cache_write_tokens |-> w, cache_read_tokens |-> r]

SonnetClass == Schedule(Flat(300), Flat(1500), Flat(375), Flat(30))
OpusClass == Schedule(Flat(1500), Flat(7500), Flat(1875), Flat(150))

CLAUDE_PRICING_TEMPLATES ==
    [k \in {"claude-sonnet-4-5", "claude-opus-4-1", "claude-opus-4",
            "claude-sonnet-4", "claude-sonnet-3-7", "claude-3-5-sonnet",
            "claude-3-5-haiku", "claude-3-opus", "claude-3-haiku", "default"} |->
        CASE k = "claude-sonnet-4-5" ->
                Schedule(Tiered(<<Tier(200000, 300), LastTier(600)>>),
                         Tiered(<<Tier(200000, 1500), LastTier(2250)>>),
                         Flat(375), Flat(30))
          [] k \in {"claude-opus-4-1", "claude-opus-4", "claude-3-opus"} -> OpusClass
          [] k = "claude-3-5-haiku" -> Schedule(Flat(80), Flat(400), Flat(100), Flat(8))
          [] k = "claude-3-haiku" -> Schedule(Flat(25), Flat(125), Flat(30), Flat(3))
          [] OTHER -> SonnetClass]

matching_rules ==
    << << <<"claude", "sonnet", "4", "5">>, "claude-sonnet-4-5" >>,
       << <<"claude", "4", "5">>,           "claude-sonnet-4-5" >>,
       << <<"claude", "opus", "4", "1">>,   "claude-opus-4-1" >>,
       << <<"claude", "4", "1">>,           "claude-opus-4-1" >>,
       << <<"claude", "sonnet", "3", "7">>, "claude-sonnet-3-7" >>,
       << <<"claude", "3", "7">>,           "claude-sonnet-3-7" >>,
       << <<"claude", "3", "5", "haiku">>,  "claude-3-5-haiku" >>,
       << <<"claude", "3", "5", "sonnet">>, "claude-3-5-sonnet" >>,
       << <<"claude", "sonnet", "4">>,      "claude-sonnet-4" >>,
       << <<"claude", "opus", "4">>,        "claude-opus-4" >>,
       << <<"claude", "3", "opus">>,        "claude-3-opus" >>,
       << <<"claude", "3", "sonnet">>,      "claude-3-sonnet" >>,
       << <<"claude", "3", "haiku">>,       "claude-3-haiku" >> >>

RECURSIVE FirstRule(_, _)
FirstRule(model_lower, i) ==
    IF i > Len(matching_rules) THEN "default"
    ELSE IF Contains(model_lower, matching_rules[i][1]) THEN matching_rules[i][2]
    ELSE FirstRule(model_lower, i + 1)

\* The pricing key the first matching rule names; the lookup of that key in
\* the table raises KeyError when the table has no such entry.
match_model_pricing(model_name) ==
    LET key == FirstRule(lower(model_name), 1)
    IN  IF key \in DOMAIN CLAUDE_PRICING_TEMPLATES
        THEN [ok |-> TRUE, key |-> key, pricing |-> CLAUDE_PRICING_TEMPLATES[key]]
        ELSE [ok |-> FALSE, key |-> key, pricing |-> Null]

\* lines 234-261: the walk over the sorted tiers
RECURSIVE TierWalk(_, _, _, _, _)
TierWalk(tiers, i, remaining_tokens, previous_threshold, total_cost) ==
    IF i > Len(tiers) THEN total_cost
    ELSE LET tier == tiers[i]
             tokens_in_tier == IF tier.inf THEN remaining_tokens
                               ELSE Min(remaining_tokens,
                                        tier.threshold - previous_threshold)
             charged == IF tokens_in_tier > 0 THEN tokens_in_tier ELSE 0
             left == remaining_tokens - charged
             cost == total_cost + charged * tier.price
         IN  IF left <= 0 THEN cost
             ELSE TierWalk(tiers, i + 1, left, tier.threshold, cost)

\* A faulty variant of _calculate_tiered_cost: the thresholds are ignored,
\* every token is charged the price of the first tier.
_calculate_tiered_cost_first_tier(tokens, pricing_config) ==
    IF pricing_config.kind = "flat" THEN tokens * pricing_config.price
    ELSE tokens * pricing_config.tiers[1].price

\* A faulty variant of _calculate_tiered_cost: every token is charged the
\* price of the tier the whole count reaches.
_calculate_tiered_cost_top_tier(tokens, pricing_config) ==
    IF pricing_config.kind = "flat" THEN tokens * pricing_config.price
    ELSE LET reached == {i \in DOMAIN pricing_config.tiers :
                            \/ pricing_config.tiers[i].inf
                            \/ tokens <= pricing_config.tiers[i].threshold}
             top == CHOOSE i \in reached : \A j \in reached : i <= j
         IN  tokens * pricing_config.tiers[top].price

_calculate_tiered_cost(tokens, pricing_config) ==
    IF pricing_config.kind = "flat" THEN tokens * pricing_config.price
    ELSE TierWalk(pricing_config.tiers, 1, tokens, 0, 0)

\* A faulty variant of calculate_token_cost: cache reads are a discount.
calculate_token_cost_cache_discount(model, input_tokens, output_tokens, cache_creation_tokens, cache_read_tokens) ==
    LET m == match_model_pricing(model)
    IN  IF ~m.ok THEN [ok |-> FALSE, cost |-> 0]
        ELSE [ok |-> TRUE,
              cost |-> _calculate_tiered_cost(input_tokens, m.pricing.input_tokens)
                     + _calculate_tiered_cost(output_tokens, m.pricing.output_tokens)
                     + _calculate_tiered_cost(cache_creation_tokens,
                                              m.pricing.cache_write_tokens)
                     - _calculate_tiered_cost(cache_read_tokens,
                                              m.pricing.cache_read_tokens)]

\* lines 285-295.  Costs are whole numbers of 1e-8 USD, which round(_, 8)
\* leaves as they are.
calculate_token_cost(model, input_tokens, output_tokens, cache_creation_tokens, cache_read_tokens) ==
    LET m == match_model_pricing(model)
    IN  IF ~m.ok THEN [ok |-> FALSE, cost |-> 0]
        ELSE [ok |-> TRUE,
              cost |-> _calculate_tiered_cost(input_tokens, m.pricing.input_tokens)
                     + _calculate_tiered_cost(output_tokens, m.pricing.output_tokens)
                     + _calculate_tiered_cost(cache_creation_tokens,
                                              m.pricing.cache_write_tokens)
                     + _calculate_tiered_cost(cache_read_tokens,
                                              m.pricing.cache_read_tokens)]


\* a call of calculate_token_cost: its arguments, whether it was made,
\* whether it raised, the pricing key it resolved and the cost it returned
Quote(model, input_tokens, output_tokens, cache_creation_tokens, cache_read_tokens) ==
    [model |-> model, input_tokens |-> input_tokens, output_tokens |-> output_tokens,
     cache_creation_tokens |-> cache_creation_tokens,
     cache_read_tokens |-> cache_read_tokens,
     called |-> FALSE, raised |-> FALSE, key |-> "", cost |-> 0, more |-> 0]

NoQuote == Quote(<<"unknown">>, 0, 0, 0, 0)

\* the call made with the arguments of q
Priced(q) ==
    LET m == match_model_pricing(q.model)
        c == calculate_token_cost(q.model, q.input_tokens, q.output_tokens,
                                  q.cache_creation_tokens, q.cache_read_tokens)
    IN  [q EXCEPT !.called = TRUE, !.raised = ~c.ok, !.key = m.key,
                  !.cost = IF c.ok THEN c.cost ELSE 0]

\* ------------------------------------------------------------ tenant keys
KeyIds == {"k1", "k2"}
USD == 10^6                 \* limit units (1e-6 USD) to the dollar
CostPerLimitUnit == 10^2    \* cost units (1e-8 USD) to the limit unit

\* cost < limit, for a cost in cost units and a limit in limit units
Below(cost, limit) == (cost \div CostPerLimitUnit) < limit
\* round(limit - cost, 6), in limit units
Left(limit, cost) == limit - ((cost + (CostPerLimitUnit \div 2)) \div CostPerLimitUnit)

None == [set |-> FALSE, v |-> 0]
Some(x) == [set |-> TRUE, v |-> x]
APIKeyArgs(r, c, d) == [rate_limit |-> r, cost_limit |-> c, daily_quota |-> d]

hash_api_key(key) == <<"sha256", key>>

\* crud.py lines 14-20: 32 random characters after `ck-`; the n-th key
\* returned differs from every key returned before
generate_api_key(n) == "ck-" \o ToString(n)

\* `x or default`: the default replaces an omitted limit and a limit of 0
OrDefault(arg, default) == IF arg.set /\ arg.v # 0 THEN arg.v ELSE default

create_api_key(key, api_key) ==
    [exists |-> TRUE,
     key_hash |-> hash_api_key(key),
     key_value |-> key,
     is_active |-> TRUE,
     rate_limit |-> OrDefault(api_key.rate_limit, 1000),
     cost_limit |-> OrDefault(api_key.cost_limit, 10 * USD),
     daily_quota |-> OrDefault(api_key.daily_quota, 50 * USD),
     last_used |-> -1]

\* `if x is not None: db_key.x = x`, with no check of the value
update_api_key(db_key, upd) ==
    [db_key EXCEPT
        !.rate_limit = IF upd.rate_limit.set THEN upd.rate_limit.v ELSE @,
        !.cost_limit = IF upd.cost_limit.set THEN upd.cost_limit.v ELSE @,
        !.daily_quota = IF upd.daily_quota.set THEN upd.daily_quota.v ELSE @]

\* crud.py lines 126-132: the row stays, its is_active is cleared
deactivate_api_key(db_key) == [db_key EXCEPT !.is_active = FALSE]

regenerate_api_key_keeps_hash(db_key, new_key) ==
    [db_key EXCEPT !.key_value = new_key, !.last_used = -1]

\* crud.py lines 148-167: key_hash, key_value and last_used are rewritten
\* (created_at is not a column of the model); is_active and the limits
\* are not touched
regenerate_api_key(db_key, new_key) ==
    [db_key EXCEPT !.key_hash = hash_api_key(new_key),
                   !.key_value = new_key,
                   !.last_used = -1]

\* a row of api_keys that is not there
NoAPIKey ==
    [exists |-> FALSE, key_hash |-> <<>>, key_value |-> "", is_active |-> FALSE,
     rate_limit |-> 0, cost_limit |-> 0, daily_quota |-> 0, last_used |-> -1]

\* the rows of a table that are not of key_id
NotOf(rows, key_id) ==
    LET Other(row) == row.api_key_id # key_id IN SelectSeq(rows, Other)

delete_api_key_keeps_daily(keys, led, daily, key_id) ==
    [api_keys |-> [keys EXCEPT ![key_id] = NoAPIKey],
     usage_records |-> NotOf(led, key_id),
     daily_usage |-> daily]

\* crud.py lines 134-146, the tables as the commit of line 144 leaves them
delete_api_key(keys, led, daily, key_id) ==
    [api_keys |-> [keys EXCEPT ![key_id] = NoAPIKey],
     usage_records |-> NotOf(led, key_id),
     daily_usage |-> NotOf(daily, key_id)]

\* A faulty variant of get_api_key_by_hash: is_active is not looked at.
get_api_key_by_hash_inactive_too(keys, key_hash) ==
    LET hit == {k \in KeyIds : /\ keys[k].exists
                               /\ keys[k].key_hash = key_hash}
    IN  IF hit = {} THEN Null ELSE CHOOSE k \in hit : TRUE

get_api_key_by_hash(keys, key_hash) ==
    LET hit == {k \in KeyIds : /\ keys[k].exists
                               /\ keys[k].key_hash = key_hash
                               /\ keys[k].is_active}
    IN  IF hit = {} THEN Null ELSE CHOOSE k \in hit : TRUE

\* ---------------------------------------------------------- limit engine
RECURSIVE SumCost(_, _, _, _)
SumCost(led, i, api_key_id, since) ==
    IF i > Len(led) THEN 0
    ELSE (IF led[i].api_key_id = api_key_id /\ led[i].timestamp >= since
          THEN led[i].cost ELSE 0) + SumCost(led, i + 1, api_key_id, since)

\* A faulty variant of CountRows: the rows of every key are counted.
CountRowsOfAllKeys(led, api_key_id, since) ==
    Cardinality({i \in DOMAIN led : led[i].timestamp >= since})

\* A faulty variant of CountRows: only the rows of requests the upstream
\* answered 200 are counted.
CountRowsAnswered200(led, api_key_id, since) ==
    Cardinality({i \in DOMAIN led : /\ led[i].api_key_id = api_key_id
                                    /\ led[i].timestamp >= since
                                    /\ led[i].status_code = 200})

CountRows(led, api_key_id, since) ==
    Cardinality({i \in DOMAIN led : /\ led[i].api_key_id = api_key_id
                                    /\ led[i].timestamp >= since})

Unlimited == [allowed |-> TRUE, unlimited |-> TRUE,
              limit |-> 0, current |-> 0, remaining |-> 0, reset_time |-> 0]

\* A faulty variant of check_rate_limit: a key that stands at its limit is
\* still allowed (`<=` for `<`).
check_rate_limit_at_limit(led, api_key_id, rate_limit, utcnow) ==
    IF rate_limit <= 0 THEN Unlimited
    ELSE LET one_hour_ago == utcnow - Hour
             recent_requests == CountRows(led, api_key_id, one_hour_ago)
         IN  [allowed |-> recent_requests <= rate_limit,
              unlimited |-> FALSE,
              limit |-> rate_limit,
              current |-> recent_requests,
              remaining |-> Max(0, rate_limit - recent_requests),
              reset_time |-> utcnow + Hour]

check_rate_limit(led, api_key_id, rate_limit, utcnow) ==
    IF rate_limit <= 0 THEN Unlimited
    ELSE LET one_hour_ago == utcnow - Hour
             recent_requests == CountRows(led, api_key_id, one_hour_ago)
         IN  [allowed |-> recent_requests < rate_limit,
              unlimited |-> FALSE,
              limit |-> rate_limit,
              current |-> recent_requests,
              remaining |-> Max(0, rate_limit - recent_requests),
              reset_time |-> utcnow + Hour]

check_cost_limit(led, api_key_id, cost_limit, utcnow) ==
    IF cost_limit <= 0 THEN Unlimited
    ELSE LET one_hour_ago == utcnow - Hour
             recent_cost == SumCost(led, 1, api_key_id, one_hour_ago)
         IN  [allowed |-> Below(recent_cost, cost_limit),
              unlimited |-> FALSE,
              limit |-> cost_limit,
              current |-> recent_cost,
              remaining |-> Max(0, Left(cost_limit, recent_cost)),
              reset_time |-> utcnow + Hour]

\* A faulty variant of check_daily_quota: only a negative quota is
\* unlimited (`< 0` for `<= 0`).
check_daily_quota_zero_limits(led, api_key_id, daily_quota, utcnow) ==
    IF daily_quota < 0 THEN Unlimited
    ELSE LET today_start == utcnow - (utcnow % Day)
             today_cost == SumCost(led, 1, api_key_id, today_start)
         IN  [allowed |-> Below(today_cost, daily_quota),
              unlimited |-> FALSE,
              limit |-> daily_quota,
              current |-> today_cost,
              remaining |-> Max(0, Left(daily_quota, today_cost)),
              reset_time |-> today_start + Day]

check_daily_quota(led, api_key_id, daily_quota, utcnow) ==
    IF daily_quota <= 0 THEN Unlimited
    ELSE LET today_start == utcnow - (utcnow % Day)
             today_cost == SumCost(led, 1, api_key_id, today_start)
         IN  [allowed |-> Below(today_cost, daily_quota),
              unlimited |-> FALSE,
              limit |-> daily_quota,
              current |-> today_cost,
              remaining |-> Max(0, Left(daily_quota, today_cost)),
              reset_time |-> today_start + Day]

\* ------------------------------------------------------ backend registry
MaxBackends == 3      \* rows ever created in backend_configs
BackendIds == 1..MaxBackends

\* A row of backend_configs.  issued: the id was given to a row once (an id
\* is a uuid and is never given twice); exists: the row is in the table.
NoBackend == [issued |-> FALSE, exists |-> FALSE,
              is_active |-> FALSE, is_default |-> FALSE]
Backend(is_active, is_default) ==
    [issued |-> TRUE, exists |-> TRUE,
     is_active |-> is_active, is_default |-> is_default]

\* the lowest of the rows S; 0 for none
FirstOf(S) == IF S = {} THEN 0 ELSE CHOOSE b \in S : \A c \in S : b <= c

\* what .first() of a query without ORDER BY can return when the rows S
\* match: any of them, and None (0) when there is none
first(S) == IF S = {} THEN {0} ELSE S

get_active_backend_config_default_first(backends) ==
    LET active == {b \in BackendIds : backends[b].exists /\ backends[b].is_active}
        default == {b \in BackendIds : backends[b].exists /\ backends[b].is_default}
    IN  IF default # {} THEN first(default) ELSE first(active)

\* crud.py lines 45-51: the rows the function can return
get_active_backend_config(backends) ==
    LET active == {b \in BackendIds : backends[b].exists /\ backends[b].is_active}
        default == {b \in BackendIds : backends[b].exists /\ backends[b].is_default}
    IN  IF active # {} THEN first(active) ELSE first(default)


\* -------------------------------------------------------------- metering
Unknown == <<"unknown">>
Sonnet4 == <<"claude", "sonnet", "4", "20250514">>
Claude3Sonnet == <<"claude", "3", "sonnet", "20240229">>

UsageFields == {"input_tokens", "output_tokens",
                "cache_creation_input_tokens", "cache_read_input_tokens"}
NoUsage == [f \in {} |-> 0]
UsageGet(usage, f) == IF f \in DOMAIN usage THEN usage[f] ELSE 0

\* One line of a buffered body.  kind is what the line decodes to: an event
\* type for a `data: {json object}` line, "done" for `data: [DONE]`,
\* "blank" for `data: ` alone, "event" for a line without the data prefix,
\* "garbage" for `data: ` with undecodable JSON, "nondict" for `data: ` with
\* JSON that is no object.  A body that is one JSON document is one line of
\* kind "object", "json_garbage" or "json_nondict" (no data prefix).
Line(kind, model, usage) == [kind |-> kind, model |-> model, usage |-> usage]

Response(status_code, content_type, body) ==
    [status_code |-> status_code, content_type |-> content_type, body |-> body]
NoResponse == Response(0, "", <<>>)

\* what the upstream answered: response.status_code and whether
\* response_content, the buffered body, has length 0
Answer(resp) == [status_code |-> resp.status_code, empty |-> Len(resp.body) = 0]

InitialStats ==
    [model |-> Unknown, input_tokens |-> 0, output_tokens |-> 0,
     cache_creation_tokens |-> 0, cache_read_tokens |-> 0,
     total_tokens |-> 0, precise_cost |-> 0, raised |-> FALSE]

\* A faulty variant of ParseErrorStats: the handler forgets `total_tokens = 0`.
ParseErrorStatsKeepsTotal(stats) ==
    [stats EXCEPT !.model = Unknown, !.input_tokens = 0, !.output_tokens = 0,
                  !.cache_creation_tokens = 0, !.cache_read_tokens = 0,
                  !.precise_cost = 0, !.raised = TRUE]

\* the handler of `except Exception as parse_error`
ParseErrorStats(stats) ==
    [stats EXCEPT !.model = Unknown, !.input_tokens = 0, !.output_tokens = 0,
                  !.cache_creation_tokens = 0, !.cache_read_tokens = 0,
                  !.total_tokens = 0, !.precise_cost = 0, !.raised = TRUE]

SeedUsage(stats, usage) ==
    [stats EXCEPT
        !.input_tokens = UsageGet(usage, "input_tokens"),
        !.output_tokens = UsageGet(usage, "output_tokens"),
        !.cache_creation_tokens = UsageGet(usage, "cache_creation_input_tokens"),
        !.cache_read_tokens = UsageGet(usage, "cache_read_input_tokens")]

RECURSIVE ParseSse(_, _, _)
ParseSse(lines, i, stats) ==
    IF i > Len(lines) THEN stats
    ELSE LET line == lines[i]
         IN  CASE line.kind \in {"event", "done", "blank", "garbage",
                                   "object", "json_garbage", "json_nondict"} ->
                    ParseSse(lines, i + 1, stats)
               [] line.kind = "nondict" ->
                    [stats EXCEPT !.raised = TRUE]
               [] line.kind = "message_start" ->
                    ParseSse(lines, i + 1,
                             IF line.usage # NoUsage
                             THEN SeedUsage([stats EXCEPT !.model = line.model],
                                            line.usage)
                             ELSE [stats EXCEPT !.model = line.model])
               [] line.kind = "message_delta" ->
                    ParseSse(lines, i + 1,
                             IF "output_tokens" \in DOMAIN line.usage
                             THEN [stats EXCEPT
                                     !.output_tokens = line.usage["output_tokens"]]
                             ELSE stats)
               [] OTHER -> ParseSse(lines, i + 1, stats)

ParseJson(body, stats) ==
    LET line == body[1]
    IN  CASE line.kind = "object" ->
                IF line.usage # NoUsage
                THEN SeedUsage([stats EXCEPT !.model = line.model], line.usage)
                ELSE [stats EXCEPT !.model = line.model]
          [] line.kind = "json_nondict" -> stats
          [] OTHER -> [stats EXCEPT !.raised = TRUE]

RECURSIVE ExtractSse(_, _)
ExtractSse(lines, i) ==
    IF i > Len(lines) THEN Unknown
    ELSE LET line == lines[i]
         IN  CASE line.kind = "nondict" -> Unknown
               [] /\ line.kind \in {"message_start", "content_block_start", "message"}
                  /\ line.model # Unknown -> line.model
               [] OTHER -> ExtractSse(lines, i + 1)

_extract_model_from_response(resp) ==
    IF resp.body = <<>> THEN Unknown
    ELSE IF \E i \in DOMAIN resp.body :
                resp.body[i].kind \notin {"event", "object",
                                          "json_garbage", "json_nondict"}
         THEN ExtractSse(resp.body, 1)
         ELSE IF resp.body[1].kind = "object" THEN resp.body[1].model ELSE Unknown

\* A faulty variant of TotalAndCost: an exception of calculate_token_cost
\* leaves the model and the counts as parsed.
TotalAndCostUnhandled(stats) ==
    LET total == stats.input_tokens + stats.output_tokens
                 + stats.cache_creation_tokens + stats.cache_read_tokens
        priced == calculate_token_cost(stats.model, stats.input_tokens,
                                       stats.output_tokens,
                                       stats.cache_creation_tokens,
                                       stats.cache_read_tokens)
    IN  IF priced.ok
        THEN [stats EXCEPT !.total_tokens = total, !.precise_cost = priced.cost]
        ELSE [stats EXCEPT !.total_tokens = total, !.raised = TRUE]

\* lines 290-305 of record_stats: total, then cost, which may raise
TotalAndCost(stats) ==
    LET total == stats.input_tokens + stats.output_tokens
                 + stats.cache_creation_tokens + stats.cache_read_tokens
        priced == calculate_token_cost(stats.model, stats.input_tokens,
                                       stats.output_tokens,
                                       stats.cache_creation_tokens,
                                       stats.cache_read_tokens)
    IN  IF priced.ok
        THEN [stats EXCEPT !.total_tokens = total, !.precise_cost = priced.cost]
        ELSE ParseErrorStats([stats EXCEPT !.total_tokens = total])

\* the token statistics record_stats passes to record_usage_detailed
MeterResponse(resp) ==
    IF resp.body = <<>> THEN InitialStats
    ELSE LET parsed ==
                 CASE resp.content_type = "text/event-stream" ->
                        ParseSse(resp.body, 1, InitialStats)
                   [] resp.content_type = "application/json" ->
                        ParseJson(resp.body, InitialStats)
                   [] OTHER -> InitialStats
         IN  IF parsed.raised THEN ParseErrorStats(parsed)
             ELSE TotalAndCost(
                    IF parsed.model = Unknown
                    THEN [parsed EXCEPT !.model = _extract_model_from_response(resp)]
                    ELSE parsed)

\* A faulty variant of record_usage_detailed: the row is added twice.
record_usage_detailed_twice(led, req, api_key_id, stats, status_code, utcnow) ==
    LET usage_record == [req |-> req,
                         api_key_id |-> api_key_id,
                         model |-> stats.model,
                         input_tokens |-> stats.input_tokens,
                         output_tokens |-> stats.output_tokens,
                         cache_creation_tokens |-> stats.cache_creation_tokens,
                         cache_read_tokens |-> stats.cache_read_tokens,
                         tokens_used |-> stats.total_tokens,
                         cost |-> stats.precise_cost,
                         status_code |-> status_code,
                         timestamp |-> utcnow]
    IN  Append(Append(led, usage_record), usage_record)

\* A faulty variant of record_usage_detailed: a key that has a row gets its
\* last row overwritten instead of a new one.
record_usage_detailed_overwrites(led, req, api_key_id, stats, status_code, utcnow) ==
    LET usage_record == [req |-> req,
                         api_key_id |-> api_key_id,
                         model |-> stats.model,
                         input_tokens |-> stats.input_tokens,
                         output_tokens |-> stats.output_tokens,
                         cache_creation_tokens |-> stats.cache_creation_tokens,
                         cache_read_tokens |-> stats.cache_read_tokens,
                         tokens_used |-> stats.total_tokens,
                         cost |-> stats.precise_cost,
                         status_code |-> status_code,
                         timestamp |-> utcnow]
        own == {i \in DOMAIN led : led[i].api_key_id = api_key_id}
    IN  IF own = {} THEN Append(led, usage_record)
        ELSE [led EXCEPT ![CHOOSE i \in own : \A j \in own : j <= i] = usage_record]

record_usage_detailed(led, req, api_key_id, stats, status_code, utcnow) ==
    Append(led, [req |-> req,
                 api_key_id |-> api_key_id,
                 model |-> stats.model,
                 input_tokens |-> stats.input_tokens,
                 output_tokens |-> stats.output_tokens,
                 cache_creation_tokens |-> stats.cache_creation_tokens,
                 cache_read_tokens |-> stats.cache_read_tokens,
                 tokens_used |-> stats.total_tokens,
                 cost |-> stats.precise_cost,
                 status_code |-> status_code,
                 timestamp |-> utcnow])

update_last_used(keys, key_id, utcnow) ==
    [k \in KeyIds |-> IF k = key_id /\ keys[k].exists
                      THEN [keys[k] EXCEPT !.last_used = utcnow] ELSE keys[k]]


\* ------------------------------------------------------ daily aggregation
\* func.date(timestamp), a day number in the model
Date(t) == t \div Day

GroupRows(led, date_str, api_key_id, model) ==
    {i \in DOMAIN led : /\ Date(led[i].timestamp) = date_str
                        /\ led[i].api_key_id = api_key_id
                        /\ led[i].model = model}

RECURSIVE SumOver(_, _, _)
SumOver(led, I, field) ==
    IF I = {} THEN 0
    ELSE LET i == CHOOSE j \in I : TRUE
         IN  led[i][field] + SumOver(led, I \ {i}, field)

\* usage_summary[key] of lines 391-416
Summary(led, date_str, api_key_id, model) ==
    LET I == GroupRows(led, date_str, api_key_id, model)
    IN  [api_key_id |-> api_key_id, date |-> date_str, model |-> model,
         total_requests |-> Cardinality(I),
         total_input_tokens |-> SumOver(led, I, "input_tokens"),
         total_output_tokens |-> SumOver(led, I, "output_tokens"),
         total_cache_creation_tokens |-> SumOver(led, I, "cache_creation_tokens"),
         total_cache_read_tokens |-> SumOver(led, I, "cache_read_tokens"),
         total_tokens |-> SumOver(led, I, "tokens_used"),
         total_cost |-> SumOver(led, I, "cost")]

\* lines 424-461: the existing row of (api_key_id, date, model) is
\* overwritten, and a row is added when there is none
Upsert(daily, row) ==
    LET existing == {j \in DOMAIN daily : /\ daily[j].api_key_id = row.api_key_id
                                          /\ daily[j].date = row.date
                                          /\ daily[j].model = row.model}
    IN  IF existing = {} THEN Append(daily, row)
        ELSE [daily EXCEPT ![FirstOf(existing)] = row]

RECURSIVE AggregateFrom(_, _, _, _)
AggregateFrom(led, i, daily, date_str) ==
    IF i > Len(led) THEN daily
    ELSE IF Date(led[i].timestamp) = date_str
         THEN AggregateFrom(led, i + 1,
                            Upsert(daily, Summary(led, date_str, led[i].api_key_id,
                                                  led[i].model)),
                            date_str)
         ELSE AggregateFrom(led, i + 1, daily, date_str)

\* crud.py lines 377-464, daily_usage as the commit of line 463 leaves it
aggregate_daily_usage(led, daily, date_str) == AggregateFrom(led, 1, daily, date_str)

\* ------------------------------------------------------- limit headers
\* the headers of a response that is no 429 of a check
NoHeaders == [name |-> "", Limit |-> 0, Remaining |-> 0, Reset |-> 0, RetryAfter |-> 0]

HeaderName(check) ==
    CASE check = "rate" -> "X-RateLimit"
      [] check = "cost" -> "X-CostLimit"
      [] check = "quota" -> "X-DailyQuota"

Headers429RetryInAnHour(check, info) ==
    [name |-> HeaderName(check),
     Limit |-> info.limit,
     Remaining |-> info.remaining,
     Reset |-> info.reset_time,
     RetryAfter |-> 3600]

\* lines 36-41, 51-56, 66-71: <name>-Limit, <name>-Remaining, <name>-Reset
\* and Retry-After, in seconds
Headers429(check, info) ==
    [name |-> HeaderName(check),
     Limit |-> info.limit,
     Remaining |-> info.remaining,
     Reset |-> info.reset_time,
     RetryAfter |-> IF check = "quota" THEN 86400 ELSE 3600]

\* ------------------------------------------------------------------ state
VARIABLES
    settings,         \* app.config.settings, read once when the process starts
    issued,           \* the number of keys generate_api_key has returned
    now,              \* datetime.utcnow(), in ticks
    api_keys,         \* table api_keys: KeyIds -> row
    backend_configs,  \* table backend_configs: BackendIds -> row
    usage_records,    \* table usage_records, in insertion order
    daily_usage,      \* table daily_usage, in insertion order
    quote,            \* a caller of app.pricing: the arguments and the result
    rq,               \* the requests: Reqs -> local state of proxy_claude_api
    admin,            \* the admin operations in flight: Admins -> local state
    db_writer         \* the session holding the database's write lock, or 0

vars == <<settings, issued, daily_usage, quote, now, api_keys, backend_configs, usage_records, rq, admin, db_writer>>
adminVars == <<admin, db_writer>>

Reqs == 1..MaxReq
Admins == 1..MaxAdmin
NoAPIKeyCreate == APIKeyArgs(None, None, None)
Idle == [op |-> "idle", pc |-> "idle", id |-> 0, is_default |-> FALSE, key_id |-> Null, returned |-> "", plan |-> {}, api_key |-> NoAPIKeyCreate]
StartNow == Day - Hour          \* the last hour of a day
\* what a client can present: no header at all (""), a key nobody was
\* given, a key that was given to somebody
Credentials == {"", "ck-0"} \cup {generate_api_key(n) : n \in 1..issued}

U(i, o, cc, cr) ==
    [input_tokens |-> i, output_tokens |-> o,
     cache_creation_input_tokens |-> cc, cache_read_input_tokens |-> cr]

JsonOk == Response(200, "application/json", <<Line("object", Sonnet4, U(1, 1, 0, 0))>>)
SseOk ==
    Response(200, "text/event-stream",
             <<Line("event", Unknown, NoUsage),
               Line("message_start", Sonnet4, U(1, 0, 0, 1)),
               Line("content_block_delta", Unknown, NoUsage),
               Line("message_delta", Unknown, [output_tokens |-> 2]),
               Line("done", Unknown, NoUsage)>>)
Empty200 == Response(200, "application/json", <<>>)
Empty500 == Response(500, "application/json", <<>>)
JsonUnpriced ==
    Response(200, "application/json", <<Line("object", Claude3Sonnet, U(1, 1, 0, 0))>>)

UpstreamResponses == {JsonOk, SseOk, Empty200, Empty500, JsonUnpriced}

\* the cost of JsonOk, as a limit
OneCost == calculate_token_cost(Sonnet4, 1, 1, 0, 0).cost \div CostPerLimitUnit

\* config.py lines 27-29: the model replacement is off and has no mapping
\* unless the environment says otherwise.  A mapping is a list of
\* <<pattern, target>>; a pattern is a name, or a name's first parts
\* followed by `*`.
Pattern(parts, wildcard) == [parts |-> parts, wildcard |-> wildcard]
Settings == [enable_model_swapping |-> FALSE, model_mapping |-> <<>>]

\* A request body: "json" is a JSON object with a model and one tool_use
\* block, "garbage" is no JSON, "none" is no body.  raw: the bytes are the
\* client's (json.dumps writes others).
Body(kind, model, tool_use) ==
    [kind |-> kind, model |-> model, tool_use |-> tool_use, raw |-> TRUE]
NoBody == Body("none", Unknown, Unknown)

\* ---- request headers.  request.headers.items() gives the client's headers
\* in the order sent, names in lower case.
Header(name, value) == [name |-> name, value |-> value]
NoDict == [name \in {} |-> ""]
DictSet(dict, name, value) ==
    [n \in DOMAIN dict \cup {name} |-> IF n = name THEN value ELSE dict[n]]
LastIndex(headers, names) ==
    LET at == {i \in DOMAIN headers : headers[i].name \in names}
    IN  IF at = {} THEN 0 ELSE CHOOSE i \in at : \A j \in at : j <= i

\* backend_config.api_key of the row b
BackendKey(b) == "sk-" \o ToString(b)

\* lines 86-92: the loop over the client's headers.  Each pass assigns
\* original_auth_header, so the last credential header seen is kept.
original_auth_header(headers) ==
    LET i == LastIndex(headers, {"authorization", "x-api-key"})
    IN  IF i = 0 THEN "" ELSE headers[i].name

\* lines 83-102: the headers of the upstream request
proxy_headers(headers, api_key) ==
    LET kept == {"host", "authorization", "x-api-key"}
        names == {headers[i].name : i \in DOMAIN headers} \ kept
        copied == [n \in names |-> headers[LastIndex(headers, {n})].value]
        with_key == IF original_auth_header(headers) = "authorization"
                    THEN DictSet(copied, "Authorization", "Bearer " \o api_key)
                    ELSE DictSet(copied, "x-api-key", api_key)
    IN  IF "anthropic-version" \notin DOMAIN with_key
        THEN DictSet(with_key, "anthropic-version", "2023-06-01")
        ELSE with_key

\* the headers of a client that sends its key as x-api-key
KeyHeaders(key) == <<Header("host", "proxy"), Header("x-api-key", key)>>

\* The clock readings proxy_claude_api keeps while it buffers the upstream
\* response.  NoTime stands for None.  received counts the lines of the body
\* read so far, firsts the assignments to first_token_time; generation_time
\* is the local of record_stats.  Only SpecTiming follows the readings.
NoTime == 0 - 1
NoTiming ==
    [start_time |-> NoTime, processing_time |-> NoTime,
     first_token_time |-> NoTime, last_token_time |-> NoTime,
     received |-> 0, firsts |-> 0, generation_time |-> NoTime]

NewRequest ==
    [pc |-> "start",
     auth |-> "",                  \* the key presented
     raised |-> "",                \* the exception the try block raised
     headers |-> NoHeaders,        \* the limit headers of the answer
     upstream |-> Answer(NoResponse),   \* what the upstream answered
     key |-> Null,                 \* db_key.id
     steps |-> <<>>,               \* the pipeline steps evaluated, in order
     backend |-> 0,                \* backend_config.id
     upstream_calls |-> 0,         \* upstream requests issued
     resp |-> NoResponse,          \* the buffered upstream response
     status |-> 0,                 \* status answered to the client, 0: none
     reason |-> "",                \* which check or error produced it
     task |-> "none",              \* record_stats: none, pending, done, failed
     cancelled |-> FALSE,
     delivered |-> FALSE,          \* the answer was written to the client
     body |-> NoBody,              \* the body the client sends
     sent |-> NoBody,              \* the body of the upstream request
     timing |-> NoTiming,
     client_headers |-> KeyHeaders(""),   \* request.headers
     sent_to |-> 0,                \* the backend the upstream request went to
     sent_headers |-> NoDict]      \* proxy_headers

\* --------------------------------------------------- the proxy pipeline
\* A faulty variant of CheckOrder: the cost check is made before the rate check.
CheckOrderCostFirst == <<"cost", "rate", "quota">>

\* the three admission checks, in the order proxy_claude_api makes them
CheckOrder == <<"rate", "cost", "quota">>

RunCheck(check, led, api_key_id, limits, utcnow) ==
    CASE check = "rate" ->
            check_rate_limit(led, api_key_id, limits.rate_limit, utcnow)
      [] check = "cost" ->
            check_cost_limit(led, api_key_id, limits.cost_limit, utcnow)
      [] check = "quota" ->
            check_daily_quota(led, api_key_id, limits.daily_quota, utcnow)

\* lines 31-71: each check in turn; the first that does not allow raises 429
RECURSIVE Admission(_, _, _, _, _, _)
Admission(i, steps, led, api_key_id, limits, utcnow) ==
    IF i > Len(CheckOrder)
    THEN [status |-> 0, reason |-> "", steps |-> steps, headers |-> NoHeaders]
    ELSE LET info == RunCheck(CheckOrder[i], led, api_key_id, limits, utcnow)
         IN  IF ~info.allowed
             THEN [status |-> 429, reason |-> CheckOrder[i],
                   steps |-> Append(steps, CheckOrder[i]),
                   headers |-> Headers429(CheckOrder[i], info)]
             ELSE Admission(i + 1, Append(steps, CheckOrder[i]),
                            led, api_key_id, limits, utcnow)

\* lines 73-76: backend selection
SelectBackend(req, backend_config) ==
    IF backend_config = 0
    THEN [req EXCEPT !.pc = "done", !.status = 503,
                     !.reason = "No backend configuration available",
                     !.steps = Append(@, "backend")]
    ELSE [req EXCEPT !.pc = "body", !.backend = backend_config,
                     !.steps = Append(@, "backend")]

\* lines 20-76: authentication, admission and backend selection.  There is
\* no await between them: they run in one stretch.
Admit(r) ==
    /\ rq[r].pc = "start"
    /\ \A q \in Reqs : q < r => rq[q].pc # "start"
    /\ \E auth_header \in Credentials,
          backend_config \in get_active_backend_config(backend_configs) :
        LET db_key == get_api_key_by_hash(api_keys, hash_api_key(auth_header))
            limits == APIKeyArgs(api_keys[db_key].rate_limit,
                                 api_keys[db_key].cost_limit,
                                 api_keys[db_key].daily_quota)
            adm == Admission(1, <<"auth">>, usage_records, db_key, limits, now)
            asked == [rq[r] EXCEPT !.auth = auth_header]
            authed == [asked EXCEPT !.key = db_key, !.steps = adm.steps]
        IN  rq' = [rq EXCEPT ![r] =
                IF auth_header = ""
                THEN [asked EXCEPT !.pc = "done", !.status = 401,
                                   !.reason = "API key required",
                                   !.steps = <<"auth">>]
                ELSE IF db_key = Null
                THEN [asked EXCEPT !.pc = "done", !.status = 401,
                                   !.reason = "Invalid API key",
                                   !.steps = <<"auth">>]
                ELSE IF adm.status # 0
                THEN [authed EXCEPT !.pc = "done", !.status = adm.status,
                                    !.reason = adm.reason,
                                    !.headers = adm.headers]
                ELSE SelectBackend(authed, backend_config)]
    /\ UNCHANGED <<settings, quote, daily_usage, issued, now, api_keys, backend_configs, usage_records, adminVars>>

\* lines 80-126: read the client's body, build the upstream request, send it
Forward(r) ==
    /\ rq[r].pc = "body"
    /\ rq' = [rq EXCEPT ![r].pc = "upstream", ![r].upstream_calls = @ + 1,
                        ![r].sent = rq[r].body,
                        ![r].sent_to = rq[r].backend,
                        ![r].sent_headers =
                            proxy_headers(rq[r].client_headers,
                                          BackendKey(rq[r].backend))]
    /\ UNCHANGED <<settings, quote, daily_usage, issued, now, api_keys, backend_configs, usage_records, adminVars>>

\* lines 368-370: any exception of the try block is answered 500.  Reading
\* the body, opening the stream and reading its chunks can raise (the client
\* went away, the upstream timed out, the connection failed or broke).
\* A faulty variant of ExceptException: the handler makes a second attempt
\* before it answers 500.
ExceptExceptionSecondAttempt(req, exc) ==
    [req EXCEPT !.pc = "done", !.status = 500, !.reason = "Proxy error",
                !.raised = exc,
                !.upstream_calls = IF req.pc = "upstream" THEN @ + 1 ELSE @]

ExceptException(req, exc) ==
    [req EXCEPT !.pc = "done", !.status = 500, !.reason = "Proxy error",
                !.raised = exc]

ProxyError(r) ==
    /\ rq[r].pc \in {"body", "upstream"}
    /\ rq' = [rq EXCEPT ![r] = ExceptException(@, "Exception")]
    /\ UNCHANGED <<settings, quote, daily_usage, issued, now, api_keys, backend_configs, usage_records, adminVars>>

\* The client disconnects while the handler awaits: the coroutine is
\* cancelled (CancelledError is no Exception), nothing is answered.
Cancel(r) ==
    /\ rq[r].pc \in {"body", "upstream"}
    /\ rq' = [rq EXCEPT ![r].pc = "done", ![r].cancelled = TRUE]
    /\ UNCHANGED <<settings, quote, daily_usage, issued, now, api_keys, backend_configs, usage_records, adminVars>>

EmptyShieldAnyStatus(resp) == Len(resp.body) = 0

\* lines 188-195: the empty-body shield
EmptyShield(resp) == resp.status_code = 200 /\ Len(resp.body) = 0

\* A faulty variant of ShieldOutcome: the metering task is scheduled before
\* the shield answers 502.
ShieldOutcomeMetered(req, resp) ==
    [req EXCEPT !.pc = "done", !.status = 502,
                !.reason = "Empty response from upstream API",
                !.upstream = Answer(resp),
                !.resp = resp, !.task = "pending"]

ShieldOutcome(req, resp) ==
    [req EXCEPT !.pc = "done", !.status = 502,
                !.reason = "Empty response from upstream API",
                !.upstream = Answer(resp)]

\* lines 352-366: create_task(record_stats()), return the upstream response
RelayOutcome(req, resp) ==
    [req EXCEPT !.pc = "done", !.status = resp.status_code, !.reason = "relay",
                !.upstream = Answer(resp),
                !.resp = resp, !.task = "pending"]

\* lines 126-195, 352-366: the upstream response is buffered whole
UpstreamResponds(r) ==
    /\ rq[r].pc = "upstream"
    /\ \E resp \in UpstreamResponses :
        rq' = [rq EXCEPT ![r] = IF EmptyShield(resp)
                                THEN ShieldOutcome(rq[r], resp)
                                ELSE RelayOutcome(rq[r], resp)]
    /\ UNCHANGED <<settings, quote, daily_usage, issued, now, api_keys, backend_configs, usage_records, adminVars>>

\* lines 198-350: the background task.  It has no await: it runs in one
\* stretch.  A failing insert is caught and logged (`Stats error`).
RecordStats(r) ==
    /\ rq[r].task = "pending"
    /\ \E db_ok \in BOOLEAN :
        IF db_ok
        THEN /\ db_writer = 0
             /\ usage_records' =
                    record_usage_detailed(usage_records, r, rq[r].key,
                                          MeterResponse(rq[r].resp),
                                          rq[r].resp.status_code, now)
             /\ api_keys' = update_last_used(api_keys, rq[r].key, now)
             /\ rq' = [rq EXCEPT ![r].task = "done", ![r].resp = NoResponse]
        ELSE /\ rq' = [rq EXCEPT ![r].task = "failed", ![r].resp = NoResponse]
             /\ UNCHANGED <<usage_records, api_keys>>
    /\ UNCHANGED <<settings, quote, daily_usage, issued, now, backend_configs, adminVars>>

Tick ==
    /\ now < StartNow + MaxTicks
    /\ now' = now + 1
    /\ UNCHANGED <<settings, quote, daily_usage, issued, api_keys, backend_configs, usage_records, rq, adminVars>>

\* ---------------------------------------------------------- Spec: pipeline
\* The tenant keys of the pipeline specification, as the admin made them:
\* k1 created with defaults and then updated, k2 created with rate_limit 2.
\* <<rate_limit, cost_limit, daily_quota>> of k1: each axis limited alone,
\* all, none, and a negative limit (update_api_key checks no value)
KeySetups == { <<1, OneCost, OneCost>>, <<0, 0, 0>>, <<-1, 0, 0>>,
               <<1, 0, 0>>, <<0, OneCost, 0>>, <<0, 0, OneCost>> }

KeysAsSetUp(r, c, d) ==
    [k \in KeyIds |->
        IF k = "k1"
        THEN update_api_key(create_api_key("ck-1", APIKeyArgs(None, None, None)),
                            APIKeyArgs(Some(r), Some(c), Some(d)))
        ELSE create_api_key("ck-2", APIKeyArgs(Some(2), None, None))]

\* the registries of the pipeline specification: no row at all, or a
\* default row and an active row
Registries ==
    { [b \in BackendIds |-> NoBackend],
      [b \in BackendIds |-> IF b = 1 THEN Backend(FALSE, TRUE)
                            ELSE IF b = 2 THEN Backend(TRUE, FALSE)
                            ELSE NoBackend] }

Init ==
    /\ settings = Settings
    /\ issued = Cardinality(KeyIds)
    /\ quote = NoQuote
    /\ now = StartNow
    /\ daily_usage = <<>>
    /\ \E l \in KeySetups : api_keys = KeysAsSetUp(l[1], l[2], l[3])
    /\ backend_configs \in Registries
    /\ usage_records = <<>>
    /\ rq = [r \in Reqs |-> NewRequest]
    /\ admin = [a \in Admins |-> Idle]
    /\ db_writer = 0

Next ==
    \/ \E r \in Reqs :
          \/ Admit(r)
          \/ Forward(r)
          \/ ProxyError(r)
          \/ Cancel(r)
          \/ UpstreamResponds(r)
          \/ RecordStats(r)
    \/ Tick

Spec == Init /\ [][Next]_vars


\* ------------------------------------------- SpecBackend: the registry
\* The admin operations on backend_configs, run by concurrent database
\* sessions (get_db gives every HTTP request a session of its own; several
\* server processes can share one database).  A step of the model is what a
\* session does up to and including its next commit: other sessions read
\* committed rows only.  A session that has written holds the write lock of
\* the rows until it commits or is closed.
ClearDefault(backends) ==
    [b \in BackendIds |-> [backends[b] EXCEPT !.is_default = FALSE]]

\* A faulty variant of ClearActive: no row is cleared.
ClearActiveNone(backends) == backends

ClearActive(backends) ==
    [b \in BackendIds |-> [backends[b] EXCEPT !.is_active = FALSE]]

\* A faulty variant of Uncommitted: the UPDATE is committed at once, as the
\* one of create_backend_config is.
UncommittedVisible(committed, pending) == pending

\* The table the other sessions read after a session has sent `pending`
\* without a commit: activate_backend_config does not commit its UPDATE.
Uncommitted(committed, pending) == committed

ActiveRows(backends) ==
    {b \in BackendIds : backends[b].exists /\ backends[b].is_active}
DefaultRows(backends) ==
    {b \in BackendIds : backends[b].exists /\ backends[b].is_default}
Unissued(backends) == {b \in BackendIds : ~backends[b].issued}

Busy(op, pc, id, is_default) ==
    [op |-> op, pc |-> pc, id |-> id, is_default |-> is_default, key_id |-> Null,
     returned |-> "", plan |-> {}, api_key |-> NoAPIKeyCreate]

\* create_backend_config, lines 26-28: with is_default, the default flag of
\* every row is cleared and that is committed at once
CreateClear(a) ==
    /\ admin[a].op = "idle"
    /\ db_writer = 0
    /\ Cardinality(Unissued(backend_configs))
         > Cardinality({o \in Admins : admin[o].op = "create"})
    /\ \E is_default \in BOOLEAN :
        /\ admin' = [admin EXCEPT ![a] = Busy("create", "insert", 0, is_default)]
        /\ backend_configs' = IF is_default THEN ClearDefault(backend_configs)
                              ELSE backend_configs
    /\ UNCHANGED <<settings, quote, daily_usage, issued, now, api_keys, usage_records, rq, db_writer>>

\* create_backend_config, lines 30-39: the new row, in a second transaction
CreateInsert(a) ==
    /\ admin[a].op = "create"
    /\ db_writer = 0
    /\ backend_configs' =
          [backend_configs EXCEPT ![FirstOf(Unissued(backend_configs))] =
                Backend(FALSE, admin[a].is_default)]
    /\ admin' = [admin EXCEPT ![a] = Idle]
    /\ UNCHANGED <<settings, quote, daily_usage, issued, now, api_keys, usage_records, rq, db_writer>>

\* activate_backend_config, line 60: the UPDATE of every row, not committed
ActivateClear(a) ==
    /\ admin[a].op = "idle"
    /\ db_writer = 0
    /\ \E config_id \in BackendIds :
        admin' = [admin EXCEPT ![a] = Busy("activate", "set", config_id, FALSE)]
    /\ db_writer' = a
    /\ backend_configs' = Uncommitted(backend_configs, ClearActive(backend_configs))
    /\ UNCHANGED <<settings, quote, daily_usage, issued, now, api_keys, usage_records, rq>>

\* A faulty variant of activate_backend_config: the UPDATE is committed
\* also when no row has the id.
activate_backend_config_commits_always(backends, config_id) ==
    LET view == ClearActive(backends)
    IN  IF view[config_id].exists
        THEN [committed |-> [view EXCEPT ![config_id].is_active = TRUE],
              returned |-> TRUE]
        ELSE [committed |-> view, returned |-> FALSE]

\* activate_backend_config, lines 63-68: the row is looked up in the
\* session's own view; found, it is set and all is committed (True); not
\* found, nothing is committed (False) and get_db, closing the session,
\* rolls the UPDATE back
activate_backend_config(backends, config_id) ==
    LET view == ClearActive(backends)
    IN  IF view[config_id].exists
        THEN [committed |-> [view EXCEPT ![config_id].is_active = TRUE],
              returned |-> TRUE]
        ELSE [committed |-> backends, returned |-> FALSE]

\* web_activate_backend, lines 284-285: the value returned is not looked at
ActivateSet(a) ==
    /\ admin[a].op = "activate"
    /\ backend_configs' =
          activate_backend_config(backend_configs, admin[a].id).committed
    /\ admin' = [admin EXCEPT ![a] = Idle]
    /\ db_writer' = 0
    /\ UNCHANGED <<settings, quote, daily_usage, issued, now, api_keys, usage_records, rq>>

\* update_backend_config, lines 79-98, one transaction (is_default given)
Update(a) ==
    /\ admin[a].op = "idle"
    /\ db_writer = 0
    /\ \E config_id \in BackendIds, is_default \in BOOLEAN :
        /\ backend_configs[config_id].exists
        /\ backend_configs' =
              [(IF is_default THEN ClearDefault(backend_configs)
                ELSE backend_configs) EXCEPT ![config_id].is_default = is_default]
    /\ UNCHANGED <<settings, quote, daily_usage, issued, now, api_keys, usage_records, rq, adminVars>>

\* delete_backend_config, lines 72-73: the row is read and must be no default
DeleteRead(a) ==
    /\ admin[a].op = "idle"
    /\ \E config_id \in BackendIds :
        /\ backend_configs[config_id].exists
        /\ ~backend_configs[config_id].is_default
        /\ admin' = [admin EXCEPT ![a] = Busy("delete", "delete", config_id, FALSE)]
    /\ UNCHANGED <<settings, quote, daily_usage, issued, now, api_keys, backend_configs, usage_records, rq, db_writer>>

\* delete_backend_config, lines 74-75: the DELETE and its commit; a row that
\* is gone by then makes the flush fail and nothing is committed
DeleteCommit(a) ==
    /\ admin[a].op = "delete"
    /\ db_writer = 0
    /\ backend_configs' =
          IF backend_configs[admin[a].id].exists
          THEN [backend_configs EXCEPT ![admin[a].id] =
                    [NoBackend EXCEPT !.issued = TRUE]]
          ELSE backend_configs
    /\ admin' = [admin EXCEPT ![a] = Idle]
    /\ UNCHANGED <<settings, quote, daily_usage, issued, now, api_keys, usage_records, rq, db_writer>>

\* delete_backend_config, lines 72-73 and 76-77: the row is not found or is
\* the default; False is returned, nothing is written
DeleteRejected(a) ==
    /\ admin[a].op = "idle"
    /\ \E config_id \in BackendIds :
        /\ ~backend_configs[config_id].exists \/ backend_configs[config_id].is_default
        /\ admin' = [admin EXCEPT ![a] =
                        [Idle EXCEPT !.id = config_id, !.returned = "False"]]
    /\ UNCHANGED <<settings, quote, daily_usage, issued, now, api_keys, backend_configs, usage_records, rq, db_writer>>

InitBackend ==
    /\ settings = Settings
    /\ issued = Cardinality(KeyIds)
    /\ quote = NoQuote
    /\ now = StartNow
    /\ daily_usage = <<>>
    /\ api_keys = KeysAsSetUp(0, 0, 0)
    /\ backend_configs = [b \in BackendIds |-> NoBackend]
    /\ usage_records = <<>>
    /\ rq = [r \in Reqs |-> NewRequest]
    /\ admin = [a \in Admins |-> Idle]
    /\ db_writer = 0

NextBackend ==
    \E a \in Admins :
        \/ CreateClear(a)
        \/ CreateInsert(a)
        \/ ActivateClear(a)
        \/ ActivateSet(a)
        \/ Update(a)
        \/ DeleteRead(a)
        \/ DeleteCommit(a)

SpecBackend == InitBackend /\ [][NextBackend]_vars


\* ------------------------------------- SpecDelivery: answer and metering
\* The answer of the handler is written to the client by the server after
\* the handler has returned (or raised): the answer passes the middleware
\* stack, whose BaseHTTPMiddleware hands it over through a stream, so the
\* event loop runs other ready tasks first.  record_stats was made a task
\* before the handler returned (line 353) and runs in one stretch on the
\* same loop.  The order of the two is the loop's.
Deliver(r) ==
    /\ rq[r].pc = "done"
    /\ rq[r].status # 0
    /\ ~rq[r].delivered
    /\ rq' = [rq EXCEPT ![r].delivered = TRUE]
    /\ UNCHANGED <<settings, quote, daily_usage, issued, now, api_keys, backend_configs, usage_records, adminVars>>

InitDelivery ==
    /\ settings = Settings
    /\ issued = Cardinality(KeyIds)
    /\ quote = NoQuote
    /\ now = StartNow
    /\ daily_usage = <<>>
    /\ api_keys = KeysAsSetUp(0, 0, 0)
    /\ backend_configs = [b \in BackendIds |-> IF b = 1 THEN Backend(TRUE, TRUE)
                                              ELSE NoBackend]
    /\ usage_records = <<>>
    /\ rq = [r \in Reqs |-> NewRequest]
    /\ admin = [a \in Admins |-> Idle]
    /\ db_writer = 0

NextDelivery ==
    \E r \in Reqs :
        \/ Admit(r)
        \/ Forward(r)
        \/ ProxyError(r)
        \/ Cancel(r)
        \/ UpstreamResponds(r)
        \/ RecordStats(r)
        \/ Deliver(r)

SpecDelivery == InitDelivery /\ [][NextDelivery]_vars

\* ------------------------------------------ SpecSse: metering of a stream
\* The metering task applied to the buffered SSE bodies of up to MaxLines
\* lines.  Request 1 was admitted, forwarded and relayed with such a body;
\* its record_stats task is pending.
MaxLines == 3

SseLines ==
    { Line("event", Unknown, NoUsage),
      Line("message_start", Sonnet4, U(1, 0, 0, 1)),
      Line("message_start", Sonnet4, U(2, 1, 1, 0)),
      Line("message_start", Sonnet4, NoUsage),
      Line("message_start", Claude3Sonnet, U(1, 0, 0, 1)),
      Line("content_block_delta", Unknown, NoUsage),
      Line("message_delta", Unknown, [output_tokens |-> 2]),
      Line("message_delta", Unknown, [output_tokens |-> 0]),
      Line("message_delta", Unknown, NoUsage),
      Line("done", Unknown, NoUsage) }

SseResponses ==
    { Response(200, "text/event-stream", body) :
        body \in UNION { [1..n -> SseLines] : n \in 1..MaxLines } }

\* request r after lines 20-366 with key k1 and the upstream response resp
Relayed(resp) ==
    RelayOutcome([NewRequest EXCEPT
                    !.pc = "upstream", !.auth = "ck-1", !.key = "k1",
                    !.steps = <<"auth", "rate", "cost", "quota", "backend">>,
                    !.backend = 1, !.upstream_calls = 1], resp)

InitSse ==
    /\ settings = Settings
    /\ issued = Cardinality(KeyIds)
    /\ quote = NoQuote
    /\ now = StartNow
    /\ daily_usage = <<>>
    /\ api_keys = KeysAsSetUp(0, 0, 0)
    /\ backend_configs = [b \in BackendIds |-> IF b = 1 THEN Backend(TRUE, TRUE)
                                              ELSE NoBackend]
    /\ usage_records = <<>>
    /\ \E resp \in SseResponses :
          rq = [r \in Reqs |-> IF r = 1 THEN Relayed(resp) ELSE NewRequest]
    /\ admin = [a \in Admins |-> Idle]
    /\ db_writer = 0

NextSse == \E r \in Reqs : RecordStats(r)

SpecSse == InitSse /\ [][NextSse]_vars

\* ------------------------------------------- SpecSwap: model replacement
IsPrefix(parts, name) ==
    /\ Len(parts) <= Len(name)
    /\ SubSeq(name, 1, Len(parts)) = parts

\* fnmatch of a name against a pattern
Matches(pattern, name) ==
    IF pattern.wildcard THEN IsPrefix(pattern.parts, name)
    ELSE pattern.parts = name

RECURSIVE FirstWildcard(_, _, _)
FirstWildcard(model_mapping, i, model_name) ==
    IF i > Len(model_mapping) THEN model_name
    ELSE IF model_mapping[i][1].wildcard /\ Matches(model_mapping[i][1], model_name)
         THEN model_mapping[i][2]
         ELSE FirstWildcard(model_mapping, i + 1, model_name)

\* claude_client.py lines 15-42: the exact name first, then the first
\* wildcard pattern that matches, else the name itself
_find_matching_model(model_mapping, model_name) ==
    LET exact == {i \in DOMAIN model_mapping :
                      /\ ~model_mapping[i][1].wildcard
                      /\ model_mapping[i][1].parts = model_name}
    IN  IF model_mapping = <<>> THEN model_name
        ELSE IF exact # {} THEN model_mapping[CHOOSE i \in exact : TRUE][2]
        ELSE FirstWildcard(model_mapping, 1, model_name)

\* claude_client.py lines 44-87
_replace_model_in_request(conf, body) ==
    IF ~conf.enable_model_swapping \/ conf.model_mapping = <<>> THEN body
    ELSE IF body.kind # "json" THEN body
    ELSE [body EXCEPT
            !.model = _find_matching_model(conf.model_mapping, @),
            !.tool_use = _find_matching_model(conf.model_mapping, @),
            !.raw = FALSE]

Haiku35 == <<"claude", "3", "5", "haiku", "20241022">>
Opus4 == <<"claude", "opus", "4", "20250514">>

\* the settings an operator can start the process with
SwapSettings ==
    { Settings,
      [enable_model_swapping |-> FALSE,
       model_mapping |-> << <<Pattern(Sonnet4, FALSE), Haiku35>> >>],
      [enable_model_swapping |-> TRUE,
       model_mapping |-> << <<Pattern(Sonnet4, FALSE), Haiku35>> >>],
      [enable_model_swapping |-> TRUE,
       model_mapping |-> << <<Pattern(<<"claude">>, TRUE), Haiku35>>,
                            <<Pattern(Opus4, FALSE), Sonnet4>> >>] }

Bodies ==
    { NoBody,
      Body("garbage", Unknown, Unknown),
      Body("json", Sonnet4, Sonnet4),
      Body("json", Opus4, Unknown),
      Body("json", Haiku35, Opus4) }

InitSwap ==
    /\ settings \in SwapSettings
    /\ issued = Cardinality(KeyIds)
    /\ quote = NoQuote
    /\ now = StartNow
    /\ daily_usage = <<>>
    /\ api_keys = KeysAsSetUp(0, 0, 0)
    /\ backend_configs = [b \in BackendIds |-> IF b = 1 THEN Backend(TRUE, TRUE)
                                              ELSE NoBackend]
    /\ usage_records = <<>>
    /\ \E bodies \in [Reqs -> Bodies] :
          rq = [r \in Reqs |-> [NewRequest EXCEPT !.body = bodies[r]]]
    /\ admin = [a \in Admins |-> Idle]
    /\ db_writer = 0

NextSwap ==
    \E r \in Reqs :
        \/ Admit(r)
        \/ Forward(r)

SpecSwap == InitSwap /\ [][NextSwap]_vars

\* ------------------------------------------ SpecRegen: key regeneration
\* The admin regenerates and deactivates tenant keys (web.py lines 167-232)
\* while clients present the plaintexts they were given.  Each admin
\* operation is one session with one commit.  k1 has rate_limit 1 and, in
\* one of the initial states, one ledger row of the current hour.
MaxIssued == 4

Regenerate(k) ==
    /\ api_keys[k].exists
    /\ issued < MaxIssued
    /\ issued' = issued + 1
    /\ api_keys' = [api_keys EXCEPT
                        ![k] = regenerate_api_key(@, generate_api_key(issued + 1))]
    /\ UNCHANGED <<settings, quote, daily_usage, now, backend_configs, usage_records, rq, adminVars>>

Deactivate(k) ==
    /\ api_keys[k].exists
    /\ api_keys' = [api_keys EXCEPT ![k] = deactivate_api_key(@)]
    /\ UNCHANGED <<settings, quote, daily_usage, issued, now, backend_configs, usage_records, rq, adminVars>>

EarlierRow ==
    record_usage_detailed(<<>>, 0, "k1", MeterResponse(JsonOk), 200, StartNow)

InitRegen ==
    /\ settings = Settings
    /\ issued = Cardinality(KeyIds)
    /\ quote = NoQuote
    /\ now = StartNow
    /\ daily_usage = <<>>
    /\ api_keys = KeysAsSetUp(1, 0, 0)
    /\ backend_configs = [b \in BackendIds |-> IF b = 1 THEN Backend(TRUE, TRUE)
                                              ELSE NoBackend]
    /\ usage_records \in {<<>>, EarlierRow}
    /\ rq = [r \in Reqs |-> NewRequest]
    /\ admin = [a \in Admins |-> Idle]
    /\ db_writer = 0

NextRegen ==
    \/ \E r \in Reqs :
          \/ Admit(r)
          \/ Forward(r)
    \/ \E k \in KeyIds :
          \/ Regenerate(k)
          \/ Deactivate(k)

SpecRegen == InitRegen /\ [][NextRegen]_vars

\* ------------------------------------------- SpecDelete: key deletion
\* The pipeline serving unlimited keys, the aggregation route and the
\* deletion of keys by concurrent admin sessions.  delete_api_key executes
\* its two bulk DELETEs one after the other (lines 139-140) and holds the
\* write lock from the first until its commit (line 144); until then every
\* other session reads the committed tables.
BusyKey(op, pc, key_id) ==
    [op |-> op, pc |-> pc, id |-> 0, is_default |-> FALSE, key_id |-> key_id,
     returned |-> "", plan |-> {}, api_key |-> NoAPIKeyCreate]

\* usage.py lines 65-74: date given, or yesterday
Aggregate ==
    /\ db_writer = 0
    /\ \E date_str \in 0..Date(now) :
          daily_usage' = aggregate_daily_usage(usage_records, daily_usage, date_str)
    /\ UNCHANGED <<settings, quote, issued, now, api_keys, backend_configs, usage_records, rq, adminVars>>

\* delete_api_key, lines 136-139: the key is found, the DELETE of its
\* usage_records rows is executed
DeleteKeyUsage(a) ==
    /\ admin[a].op = "idle"
    /\ db_writer = 0
    /\ \E key_id \in KeyIds :
        /\ api_keys[key_id].exists
        /\ admin' = [admin EXCEPT ![a] = BusyKey("delete_key", "daily", key_id)]
        /\ usage_records' = Uncommitted(usage_records, NotOf(usage_records, key_id))
    /\ db_writer' = a
    /\ UNCHANGED <<settings, quote, issued, daily_usage, now, api_keys, backend_configs, rq>>

\* delete_api_key, line 140: the DELETE of its daily_usage rows is executed
DeleteKeyDaily(a) ==
    /\ admin[a].op = "delete_key" /\ admin[a].pc = "daily"
    /\ admin' = [admin EXCEPT ![a].pc = "commit"]
    /\ daily_usage' = Uncommitted(daily_usage, NotOf(daily_usage, admin[a].key_id))
    /\ UNCHANGED <<settings, quote, issued, now, api_keys, backend_configs, usage_records, rq, db_writer>>

\* delete_api_key, lines 143-144: the key's row is deleted, all is committed
DeleteKeyCommit(a) ==
    /\ admin[a].op = "delete_key" /\ admin[a].pc = "commit"
    /\ LET done == delete_api_key(api_keys, usage_records, daily_usage, admin[a].key_id)
       IN  /\ api_keys' = done.api_keys
           /\ usage_records' = done.usage_records
           /\ daily_usage' = done.daily_usage
    /\ admin' = [admin EXCEPT ![a] = Idle]
    /\ db_writer' = 0
    /\ UNCHANGED <<settings, quote, issued, now, backend_configs, rq>>

InitDelete ==
    /\ settings = Settings
    /\ issued = Cardinality(KeyIds)
    /\ quote = NoQuote
    /\ now = StartNow
    /\ daily_usage = <<>>
    /\ api_keys = KeysAsSetUp(0, 0, 0)
    /\ backend_configs = [b \in BackendIds |-> IF b = 1 THEN Backend(TRUE, TRUE)
                                              ELSE NoBackend]
    /\ usage_records = <<>>
    /\ rq = [r \in Reqs |-> NewRequest]
    /\ admin = [a \in Admins |-> Idle]
    /\ db_writer = 0

NextDelete ==
    \/ \E r \in Reqs :
          \/ Admit(r)
          \/ Forward(r)
          \/ UpstreamResponds(r)
          \/ RecordStats(r)
    \/ Aggregate
    \/ \E a \in Admins :
          \/ DeleteKeyUsage(a)
          \/ DeleteKeyDaily(a)
          \/ DeleteKeyCommit(a)

SpecDelete == InitDelete /\ [][NextDelete]_vars

\* ------------------------------------------ SpecSelect: backend selection
\* The pipeline over every registry of up to MaxBackends rows with at most
\* one active row and any number of default rows, while the admin updates
\* the default flag of rows.
NoneOrOneActive ==
    {reg \in [BackendIds -> {NoBackend} \cup {Backend(a, d) : a, d \in BOOLEAN}] :
        Cardinality(ActiveRows(reg)) <= 1}

InitSelect ==
    /\ settings = Settings
    /\ issued = Cardinality(KeyIds)
    /\ quote = NoQuote
    /\ now = StartNow
    /\ daily_usage = <<>>
    /\ api_keys = KeysAsSetUp(0, 0, 0)
    /\ backend_configs \in NoneOrOneActive
    /\ usage_records = <<>>
    /\ rq = [r \in Reqs |-> NewRequest]
    /\ admin = [a \in Admins |-> Idle]
    /\ db_writer = 0

NextSelect ==
    \/ \E r \in Reqs :
          \/ Admit(r)
          \/ Forward(r)
    \/ \E a \in Admins : Update(a)

SpecSelect == InitSelect /\ [][NextSelect]_vars

\* --------------------------------------- SpecUpstream: upstream failures
\* The pipeline with the two failures of the upstream request told apart:
\* httpx raises TimeoutException when the upstream does not answer within
\* the client's timeout (claude_client.py line 13), and another
\* RequestError (ConnectError, ReadError ...) when the connection fails.
\* Both are raised inside the try block of lines 78-366, while the stream
\* is opened or read, and both are Exceptions.
UpstreamTimeout(r) ==
    /\ rq[r].pc = "upstream"
    /\ rq' = [rq EXCEPT ![r] = ExceptException(@, "TimeoutException")]
    /\ UNCHANGED <<settings, quote, daily_usage, issued, now, api_keys, backend_configs, usage_records, adminVars>>

UpstreamNetworkError(r) ==
    /\ rq[r].pc = "upstream"
    /\ rq' = [rq EXCEPT ![r] = ExceptException(@, "ConnectError")]
    /\ UNCHANGED <<settings, quote, daily_usage, issued, now, api_keys, backend_configs, usage_records, adminVars>>

InitUpstream ==
    /\ settings = Settings
    /\ issued = Cardinality(KeyIds)
    /\ quote = NoQuote
    /\ now = StartNow
    /\ daily_usage = <<>>
    /\ api_keys = KeysAsSetUp(0, 0, 0)
    /\ backend_configs = [b \in BackendIds |-> IF b = 1 THEN Backend(TRUE, TRUE)
                                              ELSE NoBackend]
    /\ usage_records = <<>>
    /\ rq = [r \in Reqs |-> NewRequest]
    /\ admin = [a \in Admins |-> Idle]
    /\ db_writer = 0

NextUpstream ==
    \E r \in Reqs :
        \/ Admit(r)
        \/ Forward(r)
        \/ UpstreamTimeout(r)
        \/ UpstreamNetworkError(r)
        \/ UpstreamResponds(r)
        \/ RecordStats(r)

SpecUpstream == InitUpstream /\ [][NextUpstream]_vars

\* ------------------------------------------------- SpecPricing: pricing
\* calculate_token_cost called with identifiers of every family of the rule
\* table, in the case an upstream can send them, and with token counts on
\* both sides of the tier thresholds; then called again with one more token
\* of one class, up to MaxMore times.
MaxMore == 2

Sonnet45 == <<"claude", "sonnet", "4", "5", "20250929">>
Haiku3 == <<"claude", "3", "haiku", "20240307">>

Models ==
    { Sonnet45, <<"Claude", "Sonnet", "4", "5">>, <<"claude", "4", "5">>,
      <<"claude", "opus", "4", "1", "20250805">>, Opus4, Sonnet4,
      <<"claude", "3", "7", "sonnet", "20250219">>,
      <<"claude", "3", "5", "sonnet", "20241022">>, Haiku35,
      <<"claude", "3", "opus", "20240229">>, Claude3Sonnet, Haiku3,
      <<"gpt", "4">>, Unknown }

TokenClasses == {"input_tokens", "output_tokens",
                 "cache_creation_tokens", "cache_read_tokens"}

Calculate ==
    /\ ~quote.called
    /\ quote' = Priced(quote)
    /\ UNCHANGED <<settings, issued, daily_usage, now, api_keys, backend_configs, usage_records, rq, adminVars>>

MoreTokens ==
    /\ quote.called
    /\ quote.more < MaxMore
    /\ \E class \in TokenClasses :
          quote' = Priced([quote EXCEPT ![class] = @ + 1, !.more = @ + 1])
    /\ UNCHANGED <<settings, issued, daily_usage, now, api_keys, backend_configs, usage_records, rq, adminVars>>

InitPricing ==
    /\ settings = Settings
    /\ issued = Cardinality(KeyIds)
    /\ \E model \in Models,
          input_tokens \in {0, 1000, 199999, 300000},
          output_tokens \in {0, 2000, 199999},
          cache_creation_tokens \in {0, 1000},
          cache_read_tokens \in {0, 1000} :
            quote = Quote(model, input_tokens, output_tokens,
                          cache_creation_tokens, cache_read_tokens)
    /\ now = StartNow
    /\ daily_usage = <<>>
    /\ api_keys = KeysAsSetUp(0, 0, 0)
    /\ backend_configs = [b \in BackendIds |-> NoBackend]
    /\ usage_records = <<>>
    /\ rq = [r \in Reqs |-> NewRequest]
    /\ admin = [a \in Admins |-> Idle]
    /\ db_writer = 0

NextPricing == Calculate \/ MoreTokens

SpecPricing == InitPricing /\ [][NextPricing]_vars

\* ------------------------------------------ SpecTiered: cost of requests
\* The metering tasks of requests of one key whose upstream answered with
\* JSON bodies of a tiered-price and of a fixed-price model, with input
\* counts below and above the threshold, each alone and taken together.
TieredResponses ==
    {Response(200, "application/json", <<Line("object", model, U(i, o, 0, 0))>>) :
        model \in {<<"claude", "sonnet", "4", "5", "2025">>, Sonnet4},
        i \in {1000, 150000, 300000}, o \in {0, 2000}}

InitTiered ==
    /\ settings = Settings
    /\ issued = Cardinality(KeyIds)
    /\ quote = NoQuote
    /\ now = StartNow
    /\ daily_usage = <<>>
    /\ api_keys = KeysAsSetUp(0, 0, 0)
    /\ backend_configs = [b \in BackendIds |-> IF b = 1 THEN Backend(TRUE, TRUE)
                                              ELSE NoBackend]
    /\ usage_records = <<>>
    /\ rq \in [Reqs -> {Relayed(resp) : resp \in TieredResponses}]
    /\ admin = [a \in Admins |-> Idle]
    /\ db_writer = 0

NextTiered == \E r \in Reqs : RecordStats(r)

SpecTiered == InitTiered /\ [][NextTiered]_vars

\* ------------------------------------- SpecTiming: generation time, TPS
\* Request 1 was admitted and its upstream request is under way.  The
\* response is read chunk by chunk as the clock advances, then metered.
Ratio(n, d) == [num |-> n, den |-> d]
ZeroTps == Ratio(0, 1)

\* `if x`: None and 0.0 are false
Truthy(t) == t # NoTime /\ t # 0

\* A faulty variant of generation_time: the span between the markers is
\* used whether or not output tokens were counted.
generation_time_without_output_check(req, stats) ==
    IF stats.raised \/ req.resp.body = <<>> THEN req.timing.processing_time
    ELSE IF /\ req.resp.content_type = "text/event-stream"
            /\ Truthy(req.timing.first_token_time)
            /\ Truthy(req.timing.last_token_time)
         THEN req.timing.last_token_time - req.timing.first_token_time
         ELSE req.timing.processing_time

\* lines 211, 256-261, 326 of record_stats
generation_time(req, stats) ==
    IF stats.raised \/ req.resp.body = <<>> THEN req.timing.processing_time
    ELSE IF /\ req.resp.content_type = "text/event-stream"
            /\ Truthy(req.timing.first_token_time)
            /\ Truthy(req.timing.last_token_time)
            /\ stats.output_tokens > 0
         THEN req.timing.last_token_time - req.timing.first_token_time
         ELSE req.timing.processing_time

\* lines 207, 294-295, 324 of record_stats
output_tps(stats, gen) ==
    IF ~stats.raised /\ stats.output_tokens > 0 /\ gen > 0
    THEN Ratio(stats.output_tokens, gen) ELSE ZeroTps

\* the columns output_tps and processing_time of a ledger row
WithTiming(row, tps, processing_time) ==
    [f \in DOMAIN row \cup {"output_tps", "processing_time"} |->
        CASE f = "output_tps" -> tps
          [] f = "processing_time" -> processing_time
          [] OTHER -> row[f]]

TimingLines ==
    { Line("message_start", Sonnet4, U(2, 1, 1, 0)),
      Line("message_start", Sonnet4, U(1, 0, 0, 1)),
      Line("message_start", Claude3Sonnet, U(1, 1, 0, 0)),
      Line("content_block_delta", Unknown, NoUsage),
      Line("message_delta", Unknown, [output_tokens |-> 2]),
      Line("nondict", Unknown, NoUsage) }

TimingResponses ==
    { Response(200, "text/event-stream", body) :
        body \in UNION { [1..n -> TimingLines] : n \in 1..MaxLines } }
    \cup {JsonOk, Empty200}

\* the markers a chunk of the lines from..to shows to `in chunk`; when the
\* chunk ends inside the type of its last line, that line shows none
Markers(body, from, to, cut) ==
    {body[i].kind : i \in from..(IF cut THEN to - 1 ELSE to)}

\* lines 118-128: the stream opens, processing_time is taken
OpenStream(r) ==
    /\ rq[r].pc = "upstream"
    /\ \E resp \in TimingResponses :
        rq' = [rq EXCEPT ![r].pc = "streaming", ![r].resp = resp,
                         ![r].timing.processing_time =
                             now - rq[r].timing.start_time]
    /\ UNCHANGED <<settings, quote, daily_usage, issued, now, api_keys, backend_configs, usage_records, adminVars>>

\* lines 146-157: one pass of the loop over aiter_text; the clock is read
\* once for first_token_time and once more, later, for last_token_time
ReceiveChunk(r) ==
    /\ rq[r].pc = "streaming"
    /\ rq[r].resp.content_type = "text/event-stream"
    /\ rq[r].timing.received < Len(rq[r].resp.body)
    /\ \E to \in (rq[r].timing.received + 1)..Len(rq[r].resp.body),
          cut \in BOOLEAN, later \in 0..1 :
        LET t == rq[r].timing
            seen == Markers(rq[r].resp.body, t.received + 1, to, cut)
            is_first == t.first_token_time = NoTime
                        /\ "content_block_delta" \in seen
            is_last == "content_block_delta" \in seen \/ "message_delta" \in seen
        IN  /\ now + later <= StartNow + MaxTicks
            /\ now' = IF is_first /\ is_last THEN now + later ELSE now
            /\ rq' = [rq EXCEPT ![r].timing =
                        [t EXCEPT
                           !.received = to,
                           !.first_token_time = IF is_first THEN now ELSE @,
                           !.firsts = IF is_first THEN @ + 1 ELSE @,
                           !.last_token_time = IF is_last THEN now' ELSE @]]
    /\ UNCHANGED <<settings, quote, daily_usage, issued, api_keys, backend_configs, usage_records, adminVars>>

\* lines 158-195, 352-366: the body is whole
EndStream(r) ==
    /\ rq[r].pc = "streaming"
    /\ rq[r].resp.content_type = "text/event-stream" =>
           rq[r].timing.received = Len(rq[r].resp.body)
    /\ rq' = [rq EXCEPT ![r] = IF EmptyShield(rq[r].resp)
                               THEN ShieldOutcome(rq[r], rq[r].resp)
                               ELSE RelayOutcome(rq[r], rq[r].resp)]
    /\ UNCHANGED <<settings, quote, daily_usage, issued, now, api_keys, backend_configs, usage_records, adminVars>>

\* lines 198-350, with the timing columns of the row
RecordStatsTimed(r) ==
    /\ rq[r].task = "pending"
    /\ LET stats == MeterResponse(rq[r].resp)
           gen == generation_time(rq[r], stats)
       IN  \E db_ok \in BOOLEAN :
            IF db_ok
            THEN /\ db_writer = 0
                 /\ usage_records' =
                      LET led == record_usage_detailed(usage_records, r, rq[r].key,
                                     stats, rq[r].resp.status_code, now)
                      IN  [led EXCEPT ![Len(led)] =
                             WithTiming(@, output_tps(stats, gen),
                                        rq[r].timing.processing_time)]
                 /\ api_keys' = update_last_used(api_keys, rq[r].key, now)
                 /\ rq' = [rq EXCEPT ![r].task = "done",
                                     ![r].timing.generation_time = gen]
            ELSE /\ rq' = [rq EXCEPT ![r].task = "failed",
                                     ![r].timing.generation_time = gen]
                 /\ UNCHANGED <<usage_records, api_keys>>
    /\ UNCHANGED <<settings, quote, daily_usage, issued, now, backend_configs, adminVars>>

InitTiming ==
    /\ settings = Settings
    /\ issued = Cardinality(KeyIds)
    /\ quote = NoQuote
    /\ now = StartNow
    /\ daily_usage = <<>>
    /\ api_keys = KeysAsSetUp(0, 0, 0)
    /\ backend_configs = [b \in BackendIds |-> IF b = 1 THEN Backend(TRUE, TRUE)
                                              ELSE NoBackend]
    /\ usage_records = <<>>
    /\ rq = [r \in Reqs |->
               IF r = 1
               THEN [NewRequest EXCEPT
                       !.pc = "upstream", !.auth = "ck-1", !.key = "k1",
                       !.steps = <<"auth", "rate", "cost", "quota", "backend">>,
                       !.backend = 1, !.upstream_calls = 1,
                       !.timing.start_time = StartNow]
               ELSE NewRequest]
    /\ admin = [a \in Admins |-> Idle]
    /\ db_writer = 0

NextTiming ==
    \/ \E r \in Reqs : OpenStream(r)
    \/ \E r \in Reqs : ReceiveChunk(r)
    \/ \E r \in Reqs : EndStream(r)
    \/ \E r \in Reqs : RecordStatsTimed(r)
    \/ Tick

SpecTiming == InitTiming /\ [][NextTiming]_vars

\* ------------------------------------ SpecHeaders: the upstream headers
\* Request 1 of key k1 was admitted with backend 1 selected; its client sent
\* up to MaxHeaders headers, one of them at least carrying the key.
MaxHeaders == 3

TenantKey == "ck-1"

ClientHeaders ==
    { Header("host", "proxy"),
      Header("authorization", "Bearer " \o TenantKey),
      Header("x-api-key", TenantKey),
      Header("anthropic-version", "2023-01-01"),
      Header("content-type", "application/json") }

HeaderLists ==
    { headers \in UNION { [1..n -> ClientHeaders] : n \in 1..MaxHeaders } :
        /\ \A i, j \in DOMAIN headers : i # j => headers[i] # headers[j]
        /\ \E i \in DOMAIN headers :
              headers[i].name \in {"authorization", "x-api-key"} }

InitHeaders ==
    /\ settings = Settings
    /\ issued = Cardinality(KeyIds)
    /\ quote = NoQuote
    /\ now = StartNow
    /\ daily_usage = <<>>
    /\ api_keys = KeysAsSetUp(0, 0, 0)
    /\ backend_configs = [b \in BackendIds |-> IF b = 1 THEN Backend(TRUE, TRUE)
                                              ELSE NoBackend]
    /\ usage_records = <<>>
    /\ \E headers \in HeaderLists :
          rq = [r \in Reqs |->
                  IF r = 1
                  THEN [NewRequest EXCEPT
                          !.pc = "body", !.auth = TenantKey, !.key = "k1",
                          !.steps = <<"auth", "rate", "cost", "quota", "backend">>,
                          !.backend = 1, !.client_headers = headers]
                  ELSE NewRequest]
    /\ admin = [a \in Admins |-> Idle]
    /\ db_writer = 0

NextHeaders == \E r \in Reqs : Forward(r)

SpecHeaders == InitHeaders /\ [][NextHeaders]_vars

\* --------------------------- SpecBackendDelete: delete against update
\* A registry of rows, one of them the default or none; sessions delete
\* rows and move the default flag.
InitBackendDelete ==
    /\ settings = Settings
    /\ issued = Cardinality(KeyIds)
    /\ quote = NoQuote
    /\ now = StartNow
    /\ daily_usage = <<>>
    /\ api_keys = KeysAsSetUp(0, 0, 0)
    /\ \E rows \in SUBSET BackendIds, default \in BackendIds :
          backend_configs = [b \in BackendIds |->
                               IF b \in rows THEN Backend(FALSE, b = default)
                               ELSE NoBackend]
    /\ usage_records = <<>>
    /\ rq = [r \in Reqs |-> NewRequest]
    /\ admin = [a \in Admins |-> Idle]
    /\ db_writer = 0

NextBackendDelete ==
    \E a \in Admins :
        \/ Update(a)
        \/ DeleteRead(a)
        \/ DeleteRejected(a)
        \/ DeleteCommit(a)

SpecBackendDelete == InitBackendDelete /\ [][NextBackendDelete]_vars

\* ------------------------------------- SpecKeys: the limits of the keys
\* The admin creates keys and updates their limits with any arguments the
\* schemas accept: Optional[int] and Optional[float] take every number.
LimitArgs == {None, Some(0 - 1), Some(0), Some(1)}

\* POST /admin/api-keys and /web/create-key: create_api_key
CreateKey(k) ==
    /\ ~api_keys[k].exists
    /\ issued < MaxIssued
    /\ issued' = issued + 1
    /\ \E rate_limit, cost_limit, daily_quota \in LimitArgs :
        api_keys' = [api_keys EXCEPT ![k] =
                        create_api_key(generate_api_key(issued + 1),
                                       APIKeyArgs(rate_limit, cost_limit,
                                                  daily_quota))]
    /\ UNCHANGED <<settings, quote, daily_usage, now, backend_configs, usage_records, rq, adminVars>>

\* PUT /admin/api-keys/{key_id}: update_api_key
UpdateKey(k) ==
    /\ api_keys[k].exists
    /\ \E rate_limit, cost_limit, daily_quota \in LimitArgs :
        api_keys' = [api_keys EXCEPT ![k] =
                        update_api_key(@, APIKeyArgs(rate_limit, cost_limit,
                                                     daily_quota))]
    /\ UNCHANGED <<settings, quote, daily_usage, issued, now, backend_configs, usage_records, rq, adminVars>>

InitKeys ==
    /\ settings = Settings
    /\ issued = 0
    /\ quote = NoQuote
    /\ now = StartNow
    /\ daily_usage = <<>>
    /\ api_keys = [k \in KeyIds |-> NoAPIKey]
    /\ backend_configs = [b \in BackendIds |-> NoBackend]
    /\ usage_records = <<>>
    /\ rq = [r \in Reqs |-> NewRequest]
    /\ admin = [a \in Admins |-> Idle]
    /\ db_writer = 0

NextKeys == \E k \in KeyIds : CreateKey(k) \/ UpdateKey(k)

SpecKeys == InitKeys /\ [][NextKeys]_vars

\* ------------------------------- SpecAggregate: concurrent aggregation
\* The aggregation route called by concurrent sessions while metering tasks
\* of requests of k1 add ledger rows.  The session is made with
\* autoflush=False: aggregate_daily_usage reads the ledger and looks every
\* (api_key_id, date, model) up in daily_usage, and nothing is written before
\* the commit of line 463.
Groups(led, date_str) ==
    {<<led[i].api_key_id, led[i].model>> :
        i \in {j \in DOMAIN led : Date(led[j].timestamp) = date_str}}

\* lines 386-461: per group the summary, the row found (0: none), and the
\* place of the group in usage_summary
PlanOf(led, daily, date_str) ==
    { [row |-> Summary(led, date_str, g[1], g[2]),
       existing |-> FirstOf({j \in DOMAIN daily : /\ daily[j].api_key_id = g[1]
                                                   /\ daily[j].date = date_str
                                                   /\ daily[j].model = g[2]}),
       first |-> FirstOf(GroupRows(led, date_str, g[1], g[2]))] :
        g \in Groups(led, date_str) }

\* db.add of the rows not found, in the order of usage_summary
RECURSIVE InsertNew(_, _)
InsertNew(daily, items) ==
    IF items = {} THEN daily
    ELSE LET it == CHOOSE x \in items : \A y \in items : x.first <= y.first
         IN  InsertNew(Append(daily, it.row), items \ {it})

\* line 463: the rows found are overwritten, the others inserted
CommitPlan(daily, plan) ==
    LET updated == [j \in DOMAIN daily |->
                      IF \E it \in plan : it.existing = j
                      THEN (CHOOSE it \in plan : it.existing = j).row
                      ELSE daily[j]]
    IN  InsertNew(updated, {it \in plan : it.existing = 0})

\* aggregate_daily_usage, lines 386-461
AggregateRead(a) ==
    /\ admin[a].op = "idle"
    /\ \E date_str \in 0..Date(now) :
        admin' = [admin EXCEPT ![a] =
                    [Idle EXCEPT !.op = "aggregate", !.pc = "commit",
                                 !.plan = PlanOf(usage_records, daily_usage,
                                                 date_str)]]
    /\ UNCHANGED <<settings, quote, issued, daily_usage, now, api_keys, backend_configs, usage_records, rq, db_writer>>

\* aggregate_daily_usage, line 463
AggregateCommit(a) ==
    /\ admin[a].op = "aggregate"
    /\ db_writer = 0
    /\ daily_usage' = CommitPlan(daily_usage, admin[a].plan)
    /\ admin' = [admin EXCEPT ![a] = Idle]
    /\ UNCHANGED <<settings, quote, issued, now, api_keys, backend_configs, usage_records, rq, db_writer>>

InitAggregate ==
    /\ settings = Settings
    /\ issued = Cardinality(KeyIds)
    /\ quote = NoQuote
    /\ now = StartNow
    /\ daily_usage = <<>>
    /\ api_keys = KeysAsSetUp(0, 0, 0)
    /\ backend_configs = [b \in BackendIds |-> IF b = 1 THEN Backend(TRUE, TRUE)
                                              ELSE NoBackend]
    /\ usage_records = <<>>
    /\ rq \in [Reqs -> {Relayed(JsonOk), Relayed(JsonUnpriced)}]
    /\ admin = [a \in Admins |-> Idle]
    /\ db_writer = 0

NextAggregate ==
    \/ \E r \in Reqs : RecordStats(r)
    \/ \E a \in Admins : AggregateRead(a) \/ AggregateCommit(a)
    \/ Tick

SpecAggregate == InitAggregate /\ [][NextAggregate]_vars

\* ------------------------------------ SpecLedger: who writes the ledger
\* Every operation that writes to the database, run against a ledger that
\* holds a row of k2: the metering tasks of requests of k1, aggregation,
\* update, deactivation and regeneration of k1, deletion of either key,
\* update of a backend row.
InitLedger ==
    /\ settings = Settings
    /\ issued = Cardinality(KeyIds)
    /\ quote = NoQuote
    /\ now = StartNow
    /\ daily_usage = <<>>
    /\ api_keys = KeysAsSetUp(0, 0, 0)
    /\ backend_configs = [b \in BackendIds |-> IF b = 1 THEN Backend(TRUE, TRUE)
                                              ELSE NoBackend]
    /\ usage_records = record_usage_detailed(<<>>, 0, "k2", MeterResponse(JsonOk),
                                             200, StartNow)
    /\ rq = [r \in Reqs |-> Relayed(JsonOk)]
    /\ admin = [a \in Admins |-> Idle]
    /\ db_writer = 0

NextLedger ==
    \/ \E r \in Reqs : RecordStats(r)
    \/ Aggregate
    \/ /\ UpdateKey("k1")           \* with rate_limit alone
       /\ api_keys'["k1"].cost_limit = api_keys["k1"].cost_limit
       /\ api_keys'["k1"].daily_quota = api_keys["k1"].daily_quota
    \/ Regenerate("k1")
    \/ Deactivate("k1")
    \/ \E a \in Admins :
          \/ Update(a)
          \/ DeleteKeyUsage(a)
          \/ DeleteKeyDaily(a)
          \/ DeleteKeyCommit(a)

SpecLedger == InitLedger /\ [][NextLedger]_vars

\* --------------------------------------- SpecRetry: the trailing window
\* The pipeline serving k2 and k1, k1 limited on one axis to what one
\* request uses, with a ledger that is empty or holds a row of k1 written
\* at StartNow, as the clock advances.
InitRetry ==
    /\ settings = Settings
    /\ issued = Cardinality(KeyIds)
    /\ quote = NoQuote
    /\ now = StartNow
    /\ daily_usage = <<>>
    /\ \E l \in {<<1, 0, 0>>, <<0, OneCost, 0>>, <<0, 0, OneCost>>} :
          api_keys = KeysAsSetUp(l[1], l[2], l[3])
    /\ backend_configs = [b \in BackendIds |-> IF b = 1 THEN Backend(TRUE, TRUE)
                                              ELSE NoBackend]
    /\ usage_records \in {<<>>, EarlierRow}
    /\ rq = [r \in Reqs |-> NewRequest]
    /\ admin = [a \in Admins |-> Idle]
    /\ db_writer = 0

NextRetry ==
    \/ \E r \in Reqs :
          \/ Admit(r)
          \/ Forward(r)
          \/ UpstreamResponds(r)
          \/ RecordStats(r)
    \/ Tick

SpecRetry == InitRetry /\ [][NextRetry]_vars

\* ------------------------------------ SpecCreate: the create-key route
\* POST /admin/api-keys, admin.py lines 26-44: the body is an APIKeyCreate,
\* every limit of which may be omitted (None); the row create_api_key makes
\* is committed and returned.  The session keeps the body it was sent.
PostApiKey(a, k) ==
    /\ admin[a].op \in {"idle", "create"}
    /\ ~api_keys[k].exists
    /\ issued < MaxIssued
    /\ issued' = issued + 1
    /\ \E rate_limit, cost_limit, daily_quota \in LimitArgs :
        LET api_key == APIKeyArgs(rate_limit, cost_limit, daily_quota)
        IN  /\ api_keys' = [api_keys EXCEPT ![k] =
                               create_api_key(generate_api_key(issued + 1), api_key)]
            /\ admin' = [admin EXCEPT ![a] =
                            [BusyKey("create", "done", k) EXCEPT !.api_key = api_key]]
    /\ UNCHANGED <<settings, quote, daily_usage, now, backend_configs, usage_records, rq, db_writer>>

NextCreate ==
    \/ \E a \in Admins, k \in KeyIds : PostApiKey(a, k)
    \/ \E k \in KeyIds : Deactivate(k)

SpecCreate == InitKeys /\ [][NextCreate]_vars

\* ------------------------------------------------------------ properties
\* the ledger rows written for request r
RowsOf(r) == {i \in DOMAIN usage_records : usage_records[i].req = r}

\* request r takes its admission step (lines 20-76) in this step
Admitted(r) == rq[r].pc = "start" /\ rq'[r].pc # "start"

\* the limits of key k, as proxy_claude_api passes them to the checks
LimitsOf(k) == APIKeyArgs(api_keys[k].rate_limit, api_keys[k].cost_limit,
                          api_keys[k].daily_quota)
Allowed(check, k) ==
    RunCheck(check, usage_records, k, LimitsOf(k), now).allowed

\* C1: a request goes on to an upstream only if, at its admission read, the
\* count of its key's rows of the last hour is below rate_limit, their cost
\* is below cost_limit and the cost of today's rows is below daily_quota; a
\* check is skipped only when its limit is 0.
C1_AdmissionPredicate ==
    [][\A r \in Reqs :
          (Admitted(r) /\ rq'[r].pc = "body") =>
              LET k == rq'[r].key
                  today_start == now - (now % Day)
              IN  /\ \/ api_keys[k].rate_limit = 0
                     \/ CountRows(usage_records, k, now - Hour)
                          < api_keys[k].rate_limit
                  /\ \/ api_keys[k].cost_limit = 0
                     \/ Below(SumCost(usage_records, 1, k, now - Hour),
                              api_keys[k].cost_limit)
                  /\ \/ api_keys[k].daily_quota = 0
                     \/ Below(SumCost(usage_records, 1, k, today_start),
                              api_keys[k].daily_quota)]_vars

\* the answers the proxy makes itself, by the text of their detail
ProxyAnswers == {"API key required", "Invalid API key", "rate", "cost", "quota",
                 "No backend configuration available",
                 "Empty response from upstream API", "Proxy error"}

C3_AtMostOneActive == Cardinality(ActiveRows(backend_configs)) <= 1

\* every id is a row of the table and exactly one of them is active
C3_Witness ==
    /\ \A b \in BackendIds : backend_configs[b].exists
    /\ Cardinality(ActiveRows(backend_configs)) = 1

\* C4: at most one row of backend_configs has is_default = true.
C4_AtMostOneDefault == Cardinality(DefaultRows(backend_configs)) <= 1

\* C5: activating an existing row while another is active is atomic: the
\* committed table never loses its active row without the activated row
\* being the only active one, and the committing step leaves exactly it.
C5_ActivationAtomic ==
    [][/\ \A b \in BackendIds :
             (/\ backend_configs[b].is_active
              /\ backend_configs'[b].exists
              /\ ~backend_configs'[b].is_active) =>
                 \E a \in Admins :
                     /\ admin[a].op = "activate" /\ admin'[a].op = "idle"
                     /\ ActiveRows(backend_configs') = {admin[a].id}
       /\ \A a \in Admins :
             (/\ admin[a].op = "activate" /\ admin'[a].op = "idle"
              /\ backend_configs[admin[a].id].exists) =>
                 ActiveRows(backend_configs') = {admin[a].id}]_vars

\* a session has sent the clearing UPDATE for an existing row B and has not
\* committed, while the committed table still shows another row A active
C5_Witness ==
    \E a \in Admins, b \in BackendIds :
        /\ admin[a].op = "activate" /\ db_writer = a
        /\ backend_configs[admin[a].id].exists
        /\ b # admin[a].id
        /\ b \in ActiveRows(backend_configs)

\* C6: the rate check reads the ledger alone and a request's own row is
\* written after its admission, so requests in flight are not counted: the
\* check rejects exactly when the rows of the last hour reach rate_limit.
\* (The overshoot this allows is the state of C6_Witness.)
C6_AdmissionReadsLedgerOnly ==
    [][\A r \in Reqs :
          (Admitted(r) /\ rq'[r].key # Null) =>
              LET k == rq'[r].key
              IN  /\ usage_records' = usage_records
                  /\ RowsOf(r) = {}
                  /\ api_keys[k].rate_limit > 0 =>
                        (rq'[r].reason = "rate" <=>
                            CountRows(usage_records, k, now - Hour)
                              >= api_keys[k].rate_limit)]_vars

\* a key has more rows in the last hour than its rate_limit
C6_Witness ==
    \E k \in KeyIds :
        /\ api_keys[k].rate_limit > 0
        /\ CountRows(usage_records, k, now - Hour) > api_keys[k].rate_limit

\* C7: with a limit of 0 each of the three checks allows, whatever the ledger.
C7_ZeroAlwaysAdmits ==
    \A k \in KeyIds :
        /\ check_rate_limit(usage_records, k, 0, now).allowed
        /\ check_cost_limit(usage_records, k, 0, now).allowed
        /\ check_daily_quota(usage_records, k, 0, now).allowed

\* a key whose three limits are 0 has rows with a cost in the last hour and
\* a further request of it was let through to backend selection
C7_Witness ==
    \E r \in Reqs :
        /\ rq[r].key # Null
        /\ LimitsOf(rq[r].key) = APIKeyArgs(0, 0, 0)
        /\ rq[r].pc = "body"
        /\ CountRows(usage_records, rq[r].key, now - Hour) > 0
        /\ SumCost(usage_records, 1, rq[r].key, now - Hour) > 0

\* C8: the steps fail fast in the order authenticate, rate, cost, daily
\* quota, backend selection: the answer is the one of the first step that
\* fails and no step after it is evaluated.
C8_FailFastOrder ==
    [][\A r \in Reqs :
          Admitted(r) =>
              LET k == rq'[r].key
                  after == rq'[r]
              IN  IF k = Null
                  THEN after.status = 401 /\ after.steps = <<"auth">>
                  ELSE IF ~Allowed("rate", k)
                  THEN /\ after.status = 429 /\ after.reason = "rate"
                       /\ after.steps = <<"auth", "rate">>
                  ELSE IF ~Allowed("cost", k)
                  THEN /\ after.status = 429 /\ after.reason = "cost"
                       /\ after.steps = <<"auth", "rate", "cost">>
                  ELSE IF ~Allowed("quota", k)
                  THEN /\ after.status = 429 /\ after.reason = "quota"
                       /\ after.steps = <<"auth", "rate", "cost", "quota">>
                  ELSE /\ after.steps = <<"auth", "rate", "cost", "quota", "backend">>
                       /\ IF get_active_backend_config(backend_configs) = {0}
                          THEN after.status = 503
                          ELSE after.pc = "body" /\ after.status = 0]_vars

\* a request was answered the 429 of the rate check, after that check alone,
\* while the cost check and the quota check of its key fail as well
C8_Witness ==
    \E r \in Reqs :
        /\ rq[r].status = 429 /\ rq[r].reason = "rate"
        /\ rq[r].steps = <<"auth", "rate">>
        /\ ~Allowed("cost", rq[r].key)
        /\ ~Allowed("quota", rq[r].key)

\* C9: every row has tokens_used = input_tokens + output_tokens +
\* cache_creation_tokens + cache_read_tokens.
C9_TokensUsedIsSum ==
    \A i \in DOMAIN usage_records :
        usage_records[i].tokens_used =
            usage_records[i].input_tokens + usage_records[i].output_tokens
            + usage_records[i].cache_creation_tokens
            + usage_records[i].cache_read_tokens

\* the ledger holds a row of a parsed response with tokens and a row of a
\* response whose metering failed (status 200, model unknown)
C9_Witness ==
    \E i, j \in DOMAIN usage_records :
        /\ usage_records[i].tokens_used > 0
        /\ usage_records[i].cache_read_tokens > 0
        /\ usage_records[j].status_code = 200
        /\ usage_records[j].model = Unknown

\* C10: a request whose upstream response was returned has one metering
\* task, which inserts once: never two rows for a request, one row once the
\* task has run, none when its insert failed.
C10_OneInsertAttempt ==
    \A r \in Reqs :
        /\ Cardinality(RowsOf(r)) <= 1
        /\ rq[r].reason = "relay" <=> rq[r].task # "none"
        /\ rq[r].task = "done" => Cardinality(RowsOf(r)) = 1
        /\ rq[r].task \in {"pending", "failed"} => RowsOf(r) = {}

\* one request's task has inserted its row, another's insert has failed
C10_Witness ==
    \E r, q \in Reqs :
        /\ rq[r].task = "done" /\ Cardinality(RowsOf(r)) = 1
        /\ rq[q].task = "failed" /\ RowsOf(q) = {}

\* C11: the row of a request is inserted after the answer of that request
\* was written to the client: a request that has its row has been answered,
\* so the answer never waits for the insert.
C11_InsertAfterDelivery ==
    \A r \in Reqs : RowsOf(r) # {} => rq[r].delivered

\* the lines of an SSE body that are message_start events, and those that
\* are message_delta events carrying delta.usage.output_tokens
StartLines(body) == {i \in DOMAIN body : body[i].kind = "message_start"}
DeltaLines(body) ==
    {i \in DOMAIN body : /\ body[i].kind = "message_delta"
                         /\ "output_tokens" \in DOMAIN body[i].usage}

\* a stream as the upstream sends it: one message_start, before every
\* message_delta
WellFormed(body) ==
    /\ Cardinality(StartLines(body)) = 1
    /\ \A i \in StartLines(body), j \in DeltaLines(body) : i < j

\* C12: for a buffered SSE response the row carries input, cache_creation
\* and cache_read tokens as message_start.message.usage gives them, and
\* output_tokens of the last message_delta that has
\* delta.usage.output_tokens (of message_start when there is none), and
\* cost = calculate_token_cost of the model and these counters.
C12_SseCounters ==
    [][\A r \in Reqs :
          (/\ rq[r].task = "pending" /\ rq'[r].task = "done"
           /\ rq[r].resp.content_type = "text/event-stream"
           /\ WellFormed(rq[r].resp.body)) =>
              LET body == rq[r].resp.body
                  start == body[CHOOSE i \in StartLines(body) : TRUE]
                  last == CHOOSE j \in DeltaLines(body) :
                              \A d \in DeltaLines(body) : d <= j
                  output == IF DeltaLines(body) = {}
                            THEN UsageGet(start.usage, "output_tokens")
                            ELSE body[last].usage["output_tokens"]
                  row == usage_records'[Len(usage_records')]
              IN  /\ row.input_tokens = UsageGet(start.usage, "input_tokens")
                  /\ row.cache_creation_tokens =
                        UsageGet(start.usage, "cache_creation_input_tokens")
                  /\ row.cache_read_tokens =
                        UsageGet(start.usage, "cache_read_input_tokens")
                  /\ row.output_tokens = output
                  /\ row.cost =
                        calculate_token_cost(
                            start.model, row.input_tokens, row.output_tokens,
                            row.cache_creation_tokens, row.cache_read_tokens).cost]_vars

\* C13: with the replacement enabled, a JSON body reaches the upstream with
\* its model, and the name of its tool_use block, replaced as the mapping
\* says; with the replacement disabled the body reaches the upstream as the
\* client sent it.
C13_ModelSwap ==
    \A r \in Reqs :
        rq[r].upstream_calls > 0 =>
            IF settings.enable_model_swapping /\ rq[r].body.kind = "json"
            THEN /\ rq[r].sent.model =
                        _find_matching_model(settings.model_mapping, rq[r].body.model)
                 /\ rq[r].sent.tool_use =
                        _find_matching_model(settings.model_mapping, rq[r].body.tool_use)
            ELSE rq[r].sent = rq[r].body

\* ---- C14
\* The keys whose current plaintext is the credential a
Holders(a) == {k \in KeyIds : api_keys[k].exists /\ api_keys[k].key_value = a}

Regenerated(k) ==
    api_keys[k].exists /\ api_keys'[k].exists /\ api_keys'[k].key_value # api_keys[k].key_value

CreationKeys == {generate_api_key(n) : n \in 1..Cardinality(KeyIds)}

\* C14 as stated, for every existing key: a key that was regenerated
\* authenticates the request presenting its new plaintext as that key.
C14_NewPlaintextAuthenticates ==
    [][\A r \in Reqs : Admitted(r) =>
          \A k \in Holders(rq'[r].auth) :
              api_keys[k].key_value \notin CreationKeys =>
                  rq'[r].status # 401 /\ rq'[r].key = k]_vars

\* C14, amended: regenerate_api_key replaces key_hash and key_value by
\* those of a key never returned before and leaves the limits, is_active
\* and the ledger as they are; a request authenticated afterwards with a
\* plaintext that is no key's current one is answered 401, and a request
\* presenting the current plaintext of an active key is authenticated as
\* that key.
C14_Regenerate ==
    [][/\ \A k \in KeyIds : Regenerated(k) =>
             /\ api_keys'[k].key_value \notin Credentials
             /\ api_keys'[k].key_hash = hash_api_key(api_keys'[k].key_value)
             /\ api_keys'[k].key_hash # api_keys[k].key_hash
             /\ LimitsOf(k)' = LimitsOf(k)
             /\ api_keys'[k].is_active = api_keys[k].is_active
             /\ usage_records' = usage_records
       /\ \A r \in Reqs : Admitted(r) =>
             /\ Holders(rq'[r].auth) = {} =>
                    rq'[r].status = 401 /\ rq'[r].key = Null
             /\ \A k \in Holders(rq'[r].auth) :
                    api_keys[k].is_active =>
                        rq'[r].status # 401 /\ rq'[r].key = k]_vars

\* k1 was regenerated: the request presenting its first plaintext got 401,
\* the request presenting the new one met k1's rate limit and ledger row
C14_Witness ==
    /\ api_keys["k1"].key_value = generate_api_key(3)
    /\ rq[1].auth = generate_api_key(1) /\ rq[1].status = 401
    /\ rq[2].auth = generate_api_key(3) /\ rq[2].key = "k1"
    /\ rq[2].status = 429 /\ rq[2].reason = "rate"
    /\ usage_records = EarlierRow

\* ---- C15
KeyRows(rows, k) == {i \in DOMAIN rows : rows[i].api_key_id = k}

\* C15: delete_api_key removes the key, its UsageRecord rows and its
\* DailyUsage rows in one commit: the step in which the key disappears
\* from the committed tables leaves no row of it in either table, and a
\* step that takes rows of a key away is the step in which the key
\* disappears.
C15_DeleteAtomic ==
    [][\A k \in KeyIds :
          /\ (api_keys[k].exists /\ ~api_keys'[k].exists) =>
                /\ KeyRows(usage_records', k) = {}
                /\ KeyRows(daily_usage', k) = {}
          /\ \/ Cardinality(KeyRows(usage_records', k)) < Cardinality(KeyRows(usage_records, k))
             \/ Cardinality(KeyRows(daily_usage', k)) < Cardinality(KeyRows(daily_usage, k))
             => api_keys[k].exists /\ ~api_keys'[k].exists]_vars

\* k1 was deleted after request 1 had written its row and the day had been
\* aggregated: the row is gone; k2 keeps its ledger row and its daily row
C15_Witness ==
    /\ ~api_keys["k1"].exists
    /\ rq[1].key = "k1" /\ rq[1].task = "done" /\ RowsOf(1) = {}
    /\ rq[2].key = "k2" /\ RowsOf(2) # {}
    /\ KeyRows(daily_usage, "k2") # {}
    /\ KeyRows(daily_usage, "k1") = {}

\* ---- C16
\* C16: a request that passed authentication and the limit checks is given
\* the active row when there is one, otherwise a default row when there is
\* one, and is answered 503 exactly when there is neither; a request
\* answered 503 has made no upstream call.
C16_BackendSelection ==
    [][\A r \in Reqs :
          /\ (Admitted(r) /\ rq'[r].steps = <<"auth", "rate", "cost", "quota", "backend">>) =>
                LET active == ActiveRows(backend_configs)
                    default == DefaultRows(backend_configs)
                    after == rq'[r]
                IN  /\ active # {} => after.backend \in active /\ after.status = 0
                    /\ (active = {} /\ default # {}) =>
                            after.backend \in default /\ after.status = 0
                    /\ after.status = 503 <=> (active = {} /\ default = {})
                    /\ after.status = 503 => after.backend = 0 /\ after.pc = "done"
          /\ rq'[r].status = 503 => rq'[r].upstream_calls = 0]_vars

\* request 1 was given default row 2 beside an inactive row 1 and went to
\* the upstream; the default flag was then taken off, and request 2 was
\* answered 503 without an upstream call
C16_Witness ==
    /\ rq[1].backend = 2 /\ rq[1].upstream_calls = 1
    /\ backend_configs[1].exists /\ backend_configs[2].exists
    /\ ActiveRows(backend_configs) = {} /\ DefaultRows(backend_configs) = {}
    /\ rq[2].status = 503 /\ rq[2].upstream_calls = 0
    /\ rq[2].steps = <<"auth", "rate", "cost", "quota", "backend">>

\* ---- C17
\* C17: a request whose upstream answered 200 with a body of length 0 is
\* answered 502 with the proxy's own error body, and has neither a metering
\* task nor a ledger row; a request whose upstream answered another status
\* with a body of length 0 is answered that status, relayed.
C17_EmptyShield ==
    \A r \in Reqs :
        /\ (rq[r].upstream.status_code = 200 /\ rq[r].upstream.empty) =>
              /\ rq[r].status = 502
              /\ rq[r].reason = "Empty response from upstream API"
              /\ rq[r].task = "none"
              /\ RowsOf(r) = {}
        /\ (rq[r].upstream.status_code \notin {0, 200} /\ rq[r].upstream.empty) =>
              /\ rq[r].status = rq[r].upstream.status_code
              /\ rq[r].reason = "relay"
              /\ rq[r].task # "none"
        /\ rq[r].reason = "Empty response from upstream API" =>
              rq[r].upstream = Answer(Empty200)

\* request 1 met the shield; request 2 was answered the upstream's empty
\* 500 and was metered
C17_Witness ==
    /\ rq[1].upstream = Answer(Empty200) /\ rq[1].status = 502
    /\ rq[2].upstream = Answer(Empty500) /\ rq[2].status = 500
    /\ RowsOf(1) = {} /\ RowsOf(2) # {}

\* ---- C18
\* C18: a request whose upstream request timed out is answered 504 and has
\* no ledger row.
C18_TimeoutIs504 ==
    \A r \in Reqs :
        rq[r].raised = "TimeoutException" => rq[r].status = 504 /\ RowsOf(r) = {}

\* ---- C19
\* C19: a request whose upstream request failed with a network error that
\* is no timeout is answered 502 and has no ledger row.
C19_NetworkErrorIs502 ==
    \A r \in Reqs :
        rq[r].raised = "ConnectError" => rq[r].status = 502 /\ RowsOf(r) = {}

\* ---- C20
\* the times at which a request can have been admitted
AdmissionTimes == StartNow..now

\* C20: a request answered 429 carries the Limit, Remaining and Reset
\* headers of the check that rejected it: Limit is the key's limit of that
\* check, Remaining is 0, Reset is an hour after the admission (the next
\* midnight for the daily quota), and Retry-After is 3600 for the rate and
\* the cost check and 86400 for the daily quota; no other answer carries
\* them.
C20_Headers429 ==
    \A r \in Reqs :
        LET h == rq[r].headers
            k == rq[r].key
        IN  IF rq[r].status = 429
            THEN /\ h.Remaining = 0
                 /\ h.Limit > 0
                 /\ CASE rq[r].reason = "rate" ->
                            /\ h.name = "X-RateLimit"
                            /\ h.Limit = api_keys[k].rate_limit
                            /\ h.Reset \in {t + Hour : t \in AdmissionTimes}
                            /\ h.RetryAfter = 3600
                      [] rq[r].reason = "cost" ->
                            /\ h.name = "X-CostLimit"
                            /\ h.Limit = api_keys[k].cost_limit
                            /\ h.Reset \in {t + Hour : t \in AdmissionTimes}
                            /\ h.RetryAfter = 3600
                      [] rq[r].reason = "quota" ->
                            /\ h.name = "X-DailyQuota"
                            /\ h.Limit = api_keys[k].daily_quota
                            /\ h.Reset \in {t - (t % Day) + Day : t \in AdmissionTimes}
                            /\ h.RetryAfter = 86400
                      [] OTHER -> FALSE
            ELSE h = NoHeaders

\* request 1 was relayed and metered; request 2 of the same key was then
\* rejected by the daily quota, after midnight, with its headers
C20_Witness ==
    /\ RowsOf(1) # {}
    /\ rq[2].key = rq[1].key
    /\ rq[2].status = 429 /\ rq[2].reason = "quota"
    /\ rq[2].headers.name = "X-DailyQuota" /\ rq[2].headers.Remaining = 0
    /\ rq[2].headers.Reset = Day + Day

\* ---- C21
\* the rules whose pattern occurs in the lowercased identifier
RulesIn(model_name) ==
    {i \in DOMAIN matching_rules : Contains(lower(model_name), matching_rules[i][1])}

\* the schedule the claim names: that of the first such rule, else default
NamedKey(model_name) ==
    IF RulesIn(model_name) = {} THEN "default"
    ELSE matching_rules[FirstOf(RulesIn(model_name))][2]

\* C21: pricing resolution never fails and returns, for every identifier,
\* the schedule named by the first rule in priority order whose pattern is a
\* substring of the lowercased identifier, and the default schedule when no
\* rule matches.
C21_ResolutionTotal ==
    quote.called =>
        /\ ~quote.raised
        /\ quote.key = NamedKey(quote.model)
        /\ quote.key \in DOMAIN CLAUDE_PRICING_TEMPLATES

\* ---- C22
\* the key of a token class in a schedule
ScheduleField(class) ==
    IF class = "cache_creation_tokens" THEN "cache_write_tokens" ELSE class

\* the tier whose range of counts, from the threshold before it up to but
\* not including its own, holds N
TierContaining(tiers, N) ==
    tiers[FirstOf({i \in DOMAIN tiers : tiers[i].inf \/ N < tiers[i].threshold})]

\* this step is a call with one more token of class than the call before
OneMore(class) ==
    /\ quote.called /\ ~quote.raised /\ ~quote'.raised
    /\ quote'.more = quote.more + 1
    /\ quote'[class] = quote[class] + 1

C23_Monotone ==
    [][(quote.called /\ quote'.more = quote.more + 1) =>
          /\ quote'.raised = quote.raised
          /\ \A class \in TokenClasses :
                OneMore(class) => quote'.cost >= quote.cost]_vars

\* a haiku call after two calls with fewer cache tokens
C23_Witness ==
    /\ quote.called /\ ~quote.raised /\ quote.key = "claude-3-5-haiku"
    /\ quote.more = 2
    /\ quote.cache_creation_tokens = 1001 /\ quote.cache_read_tokens = 1001
    /\ quote.cost = quote.input_tokens * 80 + quote.output_tokens * 400
                    + 1001 * 100 + 1001 * 8

\* ---- C24
\* the cost of N tokens at p up to the threshold T and at q above it
TwoTier(N, T, p, q) == Min(N, T) * p + Max(0, N - T) * q

\* C24: the cost of a request of a model that resolves to claude-sonnet-4-5
\* is made of min(N, 200000) input tokens at 3 USD and max(0, N - 200000)
\* at 6 USD per million (likewise 15 and 22.50 for output), N being the
\* count of this request alone whatever rows the key already has; the cost
\* of a request of a fixed-price model is count times price (0.033 USD for
\* 1000 input and 2000 output tokens of claude-sonnet-4-20250514).
C24_PerRequestTiers ==
    \A i \in DOMAIN usage_records :
        LET row == usage_records[i]
            key == match_model_pricing(row.model).key
        IN  /\ key = "claude-sonnet-4-5" =>
                  row.cost = TwoTier(row.input_tokens, 200000, 300, 600)
                             + TwoTier(row.output_tokens, 200000, 1500, 2250)
                             + row.cache_creation_tokens * 375
                             + row.cache_read_tokens * 30
            /\ key = "claude-sonnet-4" =>
                  row.cost = row.input_tokens * 300 + row.output_tokens * 1500
                             + row.cache_creation_tokens * 375
                             + row.cache_read_tokens * 30
            /\ (row.model = Sonnet4 /\ row.input_tokens = 1000
                                    /\ row.output_tokens = 2000) =>
                  row.cost = 3300000

\* two rows of one key: 300000 input tokens cost 1.2 USD, and the 150000
\* of the next request are charged the first tier's price again
C24_Witness ==
    /\ Len(usage_records) = 2
    /\ usage_records[1].api_key_id = usage_records[2].api_key_id
    /\ usage_records[1].input_tokens = 300000 /\ usage_records[1].output_tokens = 0
    /\ usage_records[1].cost = 120000000
    /\ usage_records[2].input_tokens = 150000 /\ usage_records[2].output_tokens = 0
    /\ usage_records[2].cost = 45000000
    /\ match_model_pricing(usage_records[2].model).key = "claude-sonnet-4-5"

\* ---- C25
\* C25: first_token_time is assigned at most once; when both markers are
\* set last_token_time is not earlier than first_token_time; the generation
\* time record_stats uses is last - first when both markers are set and the
\* output tokens it counted are more than 0, and the processing time in
\* every other case; the output_tps of the row is output_tokens over the
\* generation time, and 0 when output_tokens = 0 or the generation time is 0.
C25_GenerationTime ==
    \A r \in Reqs :
        LET t == rq[r].timing
            both == t.first_token_time # NoTime /\ t.last_token_time # NoTime
        IN  /\ t.firsts <= 1
            /\ t.firsts = 1 <=> t.first_token_time # NoTime
            /\ both => t.last_token_time >= t.first_token_time
            /\ rq[r].task = "done" =>
                 \A i \in DOMAIN usage_records :
                    usage_records[i].req = r =>
                       LET row == usage_records[i]
                       IN  /\ t.generation_time =
                                 IF both /\ row.output_tokens > 0
                                 THEN t.last_token_time - t.first_token_time
                                 ELSE t.processing_time
                           /\ row.output_tps =
                                 IF row.output_tokens = 0 \/ t.generation_time = 0
                                 THEN ZeroTps
                                 ELSE Ratio(row.output_tokens, t.generation_time)

\* a stream whose content_block_delta chunks came a tick apart, metered
\* with 2 output tokens
C25_Witness ==
    /\ rq[1].task = "done"
    /\ rq[1].timing.firsts = 1
    /\ rq[1].timing.last_token_time = rq[1].timing.first_token_time + 1
    /\ rq[1].timing.processing_time = 0
    /\ Len(usage_records) = 1
    /\ usage_records[1].output_tokens = 2
    /\ usage_records[1].output_tps = Ratio(2, 1)

\* ---- C26
\* the answers proxy_claude_api gives before it builds the upstream request
Rejections ==
    {"API key required", "Invalid API key", "rate", "cost", "quota",
     "No backend configuration available"}

\* C26: a request issues at most one upstream request, and that one to the
\* backend selected for it; a request answered 500 after an upstream
\* failure has issued one and no more; a request rejected at
\* authentication, admission or backend selection has issued none.
C26_OneUpstreamCall ==
    \A r \in Reqs :
        /\ rq[r].upstream_calls <= 1
        /\ rq[r].upstream_calls = 1 =>
              rq[r].backend # 0 /\ rq[r].sent_to = rq[r].backend
        /\ rq[r].upstream_calls = 0 => rq[r].sent_to = 0
        /\ rq[r].reason \in Rejections => rq[r].upstream_calls = 0
        /\ rq[r].pc \in {"start", "body"} => rq[r].upstream_calls = 0

\* an upstream failure answered 500 after one call while another backend
\* row exists, and a request rejected with 401 without a call
C26_Witness ==
    /\ rq[1].status = 500 /\ rq[1].raised = "Exception"
    /\ rq[1].upstream_calls = 1
    /\ \E b \in BackendIds : b # rq[1].backend /\ backend_configs[b].exists
    /\ rq[2].status = 401 /\ rq[2].upstream_calls = 0

\* ---- C27
\* line 20: the header the key was taken from
ClientUsed(headers) ==
    IF \E i \in DOMAIN headers :
          headers[i].name = "authorization" /\ headers[i].value # ""
    THEN "authorization" ELSE "x-api-key"

\* host and the client's credentials are gone, one credential header
\* carries the backend's key, the rest is copied, anthropic-version is
\* defaulted
HeadersRebuilt(req) ==
    LET sent == req.sent_headers
        headers == req.client_headers
        others == {i \in DOMAIN headers :
                     headers[i].name \notin {"host", "authorization", "x-api-key"}}
        credentials == DOMAIN sent \cap {"Authorization", "authorization", "x-api-key"}
    IN  /\ "host" \notin DOMAIN sent /\ "authorization" \notin DOMAIN sent
        /\ \A n \in DOMAIN sent :
              sent[n] # TenantKey /\ sent[n] # "Bearer " \o TenantKey
        /\ Cardinality(credentials) = 1
        /\ \A n \in credentials :
              sent[n] \in {BackendKey(req.backend),
                           "Bearer " \o BackendKey(req.backend)}
        /\ \A i \in others :
              headers[i].name \in DOMAIN sent
              /\ sent[headers[i].name] = headers[i].value
        /\ DOMAIN sent \ credentials \subseteq
              {headers[i].name : i \in others} \cup {"anthropic-version"}
        /\ "anthropic-version" \in DOMAIN sent
        /\ (\A i \in DOMAIN headers : headers[i].name # "anthropic-version")
              => sent["anthropic-version"] = "2023-06-01"

\* C27: the upstream request carries no tenant key and no host, exactly one
\* credential header with the selected backend's api_key, every other
\* client header unchanged and anthropic-version 2023-06-01 unless the
\* client sent one; the credential is Authorization: Bearer when the
\* client used authorization and x-api-key otherwise.
C27_UpstreamHeaders ==
    \A r \in Reqs :
        rq[r].upstream_calls > 0 =>
            /\ HeadersRebuilt(rq[r])
            /\ IF ClientUsed(rq[r].client_headers) = "authorization"
               THEN /\ "Authorization" \in DOMAIN rq[r].sent_headers
                    /\ rq[r].sent_headers["Authorization"] =
                          "Bearer " \o BackendKey(rq[r].backend)
               ELSE /\ "x-api-key" \in DOMAIN rq[r].sent_headers
                    /\ rq[r].sent_headers["x-api-key"] = BackendKey(rq[r].backend)

\* ---- C28
\* C28: a delete_backend_config that returns False leaves the registry as
\* it is, a call on a default row returns False, and a row that disappears
\* from the registry is not the default at that moment.
C28_DefaultNotDeleted ==
    [][/\ \A b \in BackendIds :
             (backend_configs[b].exists /\ ~backend_configs'[b].exists)
                 => ~backend_configs[b].is_default
       /\ \A a \in Admins :
             (admin'[a] # admin[a] /\ admin'[a].returned = "False")
                 => backend_configs' = backend_configs]_vars

\* ---- C29
\* a line whose JSON is no object makes data.get raise
ParsingFails(resp) ==
    /\ resp.content_type = "text/event-stream"
    /\ \E i \in DOMAIN resp.body : resp.body[i].kind = "nondict"

\* the model of the last message_start has no price
PricingFails(resp) ==
    /\ resp.content_type = "text/event-stream"
    /\ ~ParsingFails(resp)
    /\ \E i \in DOMAIN resp.body :
          /\ resp.body[i].kind = "message_start"
          /\ resp.body[i].model = Claude3Sonnet
          /\ \A j \in DOMAIN resp.body :
                (j > i) => resp.body[j].kind # "message_start"

C30_LimitsNotNegative ==
    \A k \in KeyIds :
        api_keys[k].exists =>
            /\ api_keys[k].rate_limit >= 0
            /\ api_keys[k].cost_limit >= 0
            /\ api_keys[k].daily_quota >= 0

\* ---- C31
\* C31: every row of the ledger carries the id of a key that exists, also
\* while delete_api_key runs beside the metering task of a request of the
\* key that was admitted before.
C31_NoOrphanRows ==
    \A i \in DOMAIN usage_records :
        api_keys[usage_records[i].api_key_id].exists

\* ---- C32
\* C32: whatever calls of aggregate_daily_usage ran, one after the other or
\* at once, daily_usage holds at most one row per (api_key_id, date, model),
\* and the row's total_requests is not more than the ledger rows of its group.
C32_OneRowPerGroup ==
    /\ \A i, j \in DOMAIN daily_usage :
          (/\ daily_usage[i].api_key_id = daily_usage[j].api_key_id
           /\ daily_usage[i].date = daily_usage[j].date
           /\ daily_usage[i].model = daily_usage[j].model) => i = j
    /\ \A i \in DOMAIN daily_usage :
          daily_usage[i].total_requests
             <= Cardinality(GroupRows(usage_records, daily_usage[i].date,
                                      daily_usage[i].api_key_id,
                                      daily_usage[i].model))

\* ---- C33
\* C33: a step leaves the ledger as it is, or adds one row after the rows
\* it holds, or is the commit of delete_api_key, which takes away the rows
\* of the deleted key and no other; no row is ever changed.
C33_AppendOnly ==
    [][\/ usage_records' = usage_records
       \/ /\ Len(usage_records') = Len(usage_records) + 1
          /\ SubSeq(usage_records', 1, Len(usage_records)) = usage_records
       \/ \E k \in KeyIds :
            /\ api_keys[k].exists /\ ~api_keys'[k].exists
            /\ usage_records' = NotOf(usage_records, k)]_vars

\* after aggregation, an update and a regeneration of k1 and two metering
\* tasks, k2 was deleted: the two rows of k1 are all there is
C33_Witness ==
    /\ ~api_keys["k2"].exists
    /\ api_keys["k1"].exists /\ api_keys["k1"].rate_limit = 1
    /\ api_keys["k1"].key_value \notin CreationKeys
    /\ Len(usage_records) = 2
    /\ \A i \in DOMAIN usage_records : usage_records[i].api_key_id = "k1"
    /\ Len(daily_usage) > 0

\* ---- C34
\* C34: the step that deactivates a key changes is_active of its row and
\* nothing else of the row, the ledger or daily_usage; a request that
\* presents the plaintext of a deactivated key is answered 401 "Invalid API
\* key", makes no upstream call and gets no metering task.
C34_SoftDeactivation ==
    [][/\ \A k \in KeyIds :
             (api_keys[k].exists /\ api_keys[k].is_active
                 /\ api_keys'[k].exists /\ ~api_keys'[k].is_active) =>
                /\ api_keys'[k] = [api_keys[k] EXCEPT !.is_active = FALSE]
                /\ usage_records' = usage_records
                /\ daily_usage' = daily_usage
       /\ \A r \in Reqs : Admitted(r) =>
             \A k \in Holders(rq'[r].auth) :
                 ~api_keys[k].is_active =>
                    /\ rq'[r].pc = "done"
                    /\ rq'[r].status = 401
                    /\ rq'[r].reason = "Invalid API key"
                    /\ rq'[r].upstream_calls = 0
                    /\ rq'[r].task = "none"]_vars

\* k1 was deactivated and keeps its limit and its ledger row; the request
\* that presented its key was answered 401
C34_Witness ==
    /\ api_keys["k1"].exists /\ ~api_keys["k1"].is_active
    /\ api_keys["k1"].rate_limit = 1
    /\ api_keys["k1"].key_value = "ck-1"
    /\ usage_records = EarlierRow
    /\ rq[1].auth = "ck-1" /\ rq[1].status = 401
    /\ rq[1].reason = "Invalid API key" /\ rq[1].upstream_calls = 0

\* ---- C35
\* C35: when a request of a key was rejected by the rate check an hour ago
\* (its X-RateLimit-Reset is now) and the ledger holds no row of the key
\* written after that rejection, a request of the key admitted now is not
\* rejected by the rate check.
C35_RetryAfterHonoured ==
    [][\A r, q \in Reqs :
          (/\ Admitted(r)
           /\ rq[q].reason = "rate" /\ rq[q].headers.Reset = now
           /\ rq'[r].key = rq[q].key
           /\ \A i \in DOMAIN usage_records :
                 usage_records[i].api_key_id = rq[q].key =>
                    usage_records[i].timestamp <= now - Hour)
          => rq'[r].reason # "rate"]_vars

\* ---- C36
\* the ledger without the rows of the other keys
OwnRows(led, k) == LET Own(row) == row.api_key_id = k IN SelectSeq(led, Own)

\* C36: the outcome of the three checks for an authenticated request, and
\* the limit headers of its answer, are those the checks give on the key's
\* own limits and the key's own ledger rows alone.
C36_TenantIsolation ==
    [][\A r \in Reqs :
          (Admitted(r) /\ rq'[r].key # Null) =>
             LET k == rq'[r].key
                 alone == Admission(1, <<"auth">>, OwnRows(usage_records, k), k,
                                    LimitsOf(k), now)
             IN  /\ rq'[r].headers = alone.headers
                 /\ IF alone.status # 0
                    THEN rq'[r].status = alone.status /\ rq'[r].reason = alone.reason
                    ELSE rq'[r].status # 429
                         /\ rq'[r].steps = Append(alone.steps, "backend")]_vars

\* k1 is limited to the cost of one request an hour; the ledger holds a
\* row of k2 and none of k1, and the request of k1 passed the checks
C36_Witness ==
    /\ api_keys["k1"].cost_limit = OneCost
    /\ Len(usage_records) = 1 /\ usage_records[1].api_key_id = "k2"
    /\ rq[1].key = "k2" /\ rq[1].task = "done"
    /\ rq[2].key = "k1" /\ rq[2].pc = "body"

\* ---- C37
Requested(arg, default) == IF arg.set THEN arg.v ELSE default

\* C37: the key create_api_key stores has each limit as the body gave it,
\* and the default (1000 requests, 10 USD, 50 USD) where the body omitted
\* it; a limit given as 0 is stored as 0.
C37_StoredAsRequested ==
    [][\A a \in Admins :
          (admin'[a] # admin[a] /\ admin'[a].op = "create") =>
             LET db_key == api_keys'[admin'[a].key_id]
                 api_key == admin'[a].api_key
             IN  /\ db_key.rate_limit = Requested(api_key.rate_limit, 1000)
                 /\ db_key.cost_limit = Requested(api_key.cost_limit, 10 * USD)
                 /\ db_key.daily_quota = Requested(api_key.daily_quota, 50 * USD)]_vars

\* ---- C38
\* the session a ends an activation of an id no row has
ActivationMisses(a) ==
    /\ admin[a].op = "activate"
    /\ admin'[a].op = "idle"
    /\ ~backend_configs[admin[a].id].exists

\* C38: activate_backend_config with an id that no row has returns False
\* and leaves the is_active flag of every row as it was, so that
\* get_active_backend_config returns the backend it returned before.
C38_UnknownIdChangesNothing ==
    [][\A a \in Admins :
          ActivationMisses(a) =>
             /\ ~activate_backend_config(backend_configs, admin[a].id).returned
             /\ \A b \in BackendIds :
                   backend_configs'[b].is_active = backend_configs[b].is_active
             /\ get_active_backend_config(backend_configs')
                   = get_active_backend_config(backend_configs)]_vars

\* an activation of an id no row has is under way while another row is the
\* active one
C38_Witness ==
    \E a \in Admins :
        /\ admin[a].op = "activate"
        /\ ~backend_configs[admin[a].id].exists
        /\ \E b \in BackendIds :
              /\ backend_configs[b].exists /\ backend_configs[b].is_active
              /\ get_active_backend_config(backend_configs) = {b}

\* ---- C39
\* the ledger, had every request been answered 200
AsAnswered200(led) == [i \in DOMAIN led |-> [led[i] EXCEPT !.status_code = 200]]

\* the upstream of request r answered, and not 200 with an empty body
NotShielded(r) ==
    /\ rq[r].upstream.status_code # 0
    /\ ~(rq[r].upstream.status_code = 200 /\ rq[r].upstream.empty)

\* the answer of r is the upstream's: its status, and its body for as long
\* as the handler holds it
RelayedAsReceived(r) ==
    /\ rq[r].pc = "done"
    /\ rq[r].status = rq[r].upstream.status_code
    /\ rq[r].task # "none"
    /\ rq[r].task = "pending" => Answer(rq[r].resp) = rq[r].upstream

\* the row the metering task of r wrote carries the status relayed
RowCarriesStatus(r) ==
    rq[r].task = "done" =>
        \E i \in DOMAIN usage_records :
            /\ usage_records[i].req = r
            /\ usage_records[i].api_key_id = rq[r].key
            /\ usage_records[i].status_code = rq[r].upstream.status_code

\* C39: an upstream response other than 200 with an empty body, whatever
\* its status, is relayed with the upstream status and body; the row its
\* metering task writes carries that status_code; and the checks of a later
\* request count the rows as they would had every one of them status 200.
C39_ErrorsRelayedAndCounted ==
    [][/\ \A r \in Reqs :
             NotShielded(r)' => (RelayedAsReceived(r)' /\ RowCarriesStatus(r)')
       /\ \A r \in Reqs :
             (Admitted(r) /\ rq'[r].key # Null) =>
                LET k == rq'[r].key
                    as200 == Admission(1, <<"auth">>, AsAnswered200(usage_records),
                                       k, LimitsOf(k), now)
                IN  /\ rq'[r].headers = as200.headers
                    /\ (as200.status = 429) = (rq'[r].status = 429)
                    /\ as200.status = 429 => rq'[r].reason = as200.reason]_vars

\* the upstream answered a request of k1 with 500, the answer was relayed and
\* its row written; k1 may send one request an hour and its next request is
\* rejected by the rate check
C39_Witness ==
    /\ api_keys["k1"].rate_limit = 1
    /\ rq[1].key = "k1" /\ rq[1].status = 500 /\ rq[1].task = "done"
    /\ Len(usage_records) = 1 /\ usage_records[1].status_code = 500
    /\ rq[2].key = "k1" /\ rq[2].status = 429 /\ rq[2].reason = "rate"

====
